---- MODULE Spec2Model ----
(***************************************************************************)
(* Worker supervisor of ida-headless-mcp (internal/worker/manager.go):     *)
(* Manager.Start, Manager.monitorWorker, Manager.Stop, Manager.GetClient,  *)
(* Manager.waitForSocket, together with the worker subprocess and the      *)
(* Unix socket file they act on.                                           *)
(*                                                                         *)
(* Every call of Start is numbered; call k spawns at most one subprocess,  *)
(* which is named k as well (its cmd, its pid and its WorkerClient).       *)
(*                                                                         *)
(* The tool handlers of internal/server (errors.go, write.go, search.go)   *)
(* run as numbered requests on top of it: each looks its session up, gets  *)
(* the worker handle from the supervisor and forwards one RPC, or goes     *)
(* through the per-session result cache for an enumeration.                *)
(***************************************************************************)
EXTENDS Integers, Sequences, FiniteSets, TLC

\* ------------------------------------------------------------------ bounds
\* Number of Start calls (and so of worker subprocesses) in a run.
MaxStarts == 2
\* Number of polls of waitForSocket that fit before its deadline
\* (10 s at 100 ms per poll in the code, scaled down).
MaxPolls == 2
\* Number of tool requests in a run.
MaxReqs == 3
\* Length of the longest list an enumeration pages through.
MaxEntries == 3
\* Number of processes in the process table.
MaxPids == 3
\* max_idle of the sweeper, in ticks of the clock.
MaxIdle == 2

Sessions == {"s1"}
W == 1..MaxStarts
\* The callers of Stop: the close of a session and the idle sweeper. Each
\* calls Stop any number of times, one call at a time.
StopCallers == {"close", "sweeper"}
NoWorker == 0
NoSession == "none"
\* The tool requests of a run, and the session caches they can create.
Reqs == 1..MaxReqs
CacheIds == 1..MaxReqs
\* One more session of the server: it makes no call in these runs, and may
\* hold a cache that an earlier enumeration has filled.
PeerSession == "s2"
CachedSessions == Sessions \cup {PeerSession}
PeerCache == MaxReqs + 1
AllCaches == CacheIds \cup {PeerCache}
NoCache == 0

VARIABLES
    sessions,     \* Manager.sessions: session id -> published worker (NoWorker: no entry)
    workerPID,    \* sess.WorkerPID of every session (0: never set)
    sockFile,     \* socket path of a session: the process that bound the file there (NoWorker: no file)
    proc,         \* subprocess k: "none", "running", "listening", "zombie", "reaped"
    bound,        \* subprocess k has created the socket file at its socket path
    ctxDone,      \* workerCtx of call k is cancelled
    killed,       \* SIGKILL was sent to subprocess k
    processState, \* cmd.ProcessState of k is set (a cmd.Wait has collected the exit status)
    startPc,      \* position of Start call k
    startSess,    \* session of Start call k
    polls,        \* polls done by waitForSocket while Start call k is in it
    probe,        \* result of waitForSocket in Start call k: "pending", "ok", "timeout"
    accepted,     \* a listener accepted the probe connection of Start call k
    startRes,     \* what Start call k returned
    monPc,        \* position of the monitorWorker goroutine of worker k
    monWaitRes,   \* what cmd.Wait returned to monitorWorker k
    stopPc,       \* position of the Stop call of caller j
    stopSess,     \* session of that call
    stopW,        \* worker that the call read from the map
    stopExited,   \* when the call was made, the worker it found had exited, or it found none
                  \* because the monitor of the session's worker had removed it
    stopKillErr,  \* killErr of the call
    stopWaitRes,  \* what cmd.Wait returned to the call
    stopLog,      \* the steps the call has performed so far, in order
    stopRes,      \* what the call returned
    reqCtxDone,   \* the inbound request context ctx given to Start call k is cancelled
    req,          \* tool request r: the handler's position, arguments, locals and result
    dbVer,        \* the worker's database of a session: number of mutations applied to it
    retVer,       \* per session, the database version that the mutations which have
                  \* returned success to their callers had produced, by kind of mutation
    sessionCache, \* Server.sessionCache: session id -> its cache (NoCache: no entry)
    cacheEntries, \* cache c: enumeration kind -> its entry (absent, pending or filled)
    touched,      \* per session of the registry, the number of sess.Touch() calls made on it
    page,         \* the last filter-and-paginate tail of an enumeration handler: its
                  \* arguments and what it returned
    orphanProcs,  \* the last CleanupOrphanProcesses call: /proc as it found it, os.Getpid(),
                  \* m.pythonScript, the pids it sent SIGTERM to and what it returned
    orphanSocks,  \* the last CleanupOrphanSockets call: the files it found and what it returned
    registry      \* the session registry, the idle sweeper and an explicit close: the
                  \* sessions of list(), now - last_touched of each, and where the
                  \* sweeper's run and the close are

serverVars == <<req, dbVer, retVer, sessionCache, cacheEntries, touched>>
utilVars == <<page, orphanProcs, orphanSocks, registry>>

vars == <<sessions, workerPID, sockFile, proc, bound, ctxDone, killed, processState,
          startPc, startSess, polls, probe, accepted, startRes,
          monPc, monWaitRes,
          stopPc, stopSess, stopW, stopExited, stopKillErr, stopWaitRes, stopLog, stopRes,
          reqCtxDone, serverVars, utilVars>>

procVars  == <<proc, bound, ctxDone, killed, processState>>
startVars == <<startPc, startSess, polls, probe, accepted, startRes>>
monVars   == <<monPc, monWaitRes>>
stopVars  == <<stopPc, stopSess, stopW, stopExited, stopKillErr, stopWaitRes, stopLog, stopRes>>

\* ---------------------------------------------------------------- helpers
Alive(k) == proc[k] \in {"running", "listening"}
Exited(k) == proc[k] \in {"zombie", "reaped"}

\* os.Stat(socketPath) succeeds: a file is at the path.
StatOK(s) == sockFile[s] # NoWorker

\* net.Dial("unix", socketPath) succeeds: the file at the path was bound by a
\* process that is alive and listening on it.
DialOK(s) ==
    /\ sockFile[s] # NoWorker
    /\ proc[sockFile[s]] = "listening"

\* ------------------------------------------------------- tools and records
\* The enumeration tools and the kind of list each caches.
EnumTools == {"get_functions", "get_imports", "get_exports", "get_strings"}
Kinds == {"functions", "imports", "exports", "strings"}

EnumKind(tool) ==
    CASE tool = "get_functions" -> "functions"
      [] tool = "get_imports"   -> "imports"
      [] tool = "get_exports"   -> "exports"
      [] OTHER                  -> "strings"

\* Handlers that forward one read RPC and return its result.
ReadTools == {"get_disasm"}

\* Handlers that forward one RPC which changes the worker's database.
MutationTools == {"set_name", "delete_name", "rename_global",
                  "set_function_type", "set_global_type", "make_function"}

Tools == EnumTools \cup ReadTools \cup MutationTools

\* Every handler of write.go: each forwards one RPC that writes to the
\* worker's database.
WriteTools == MutationTools \cup
    {"set_comment", "set_func_comment", "set_decompiler_comment",
     "set_lvar_type", "rename_lvar"}

\* Every handler of errors.go and search.go that forwards one read RPC.
ForwardingReadTools == ReadTools \cup
    {"get_bytes", "get_function_disasm", "get_decompiled",
     "get_xrefs_to", "get_xrefs_from", "get_data_refs", "get_string_xrefs",
     "get_comment", "get_func_comment", "get_name", "get_function_info",
     "get_segments", "get_function_name", "get_entry_point", "get_dword_at",
     "get_qword_at", "get_instruction_length", "data_read_string",
     "data_read_byte", "find_binary", "find_text", "get_globals",
     "list_structs", "get_struct", "list_enums", "get_enum", "get_type_at"}

\* The 43 tool handlers; the operation name of each is its tool name.
AllTools == EnumTools \cup ForwardingReadTools \cup WriteTools

\* The handlers that take an address argument, and those that take a
\* function_address argument.
TakesAddress ==
    {"get_bytes", "get_disasm", "get_function_disasm", "get_decompiled",
     "get_xrefs_to", "get_xrefs_from", "get_data_refs", "get_string_xrefs",
     "get_comment", "get_func_comment", "get_name", "get_function_info",
     "get_function_name", "get_dword_at", "get_qword_at",
     "get_instruction_length", "data_read_string", "data_read_byte",
     "get_type_at",
     "set_comment", "set_func_comment", "set_decompiler_comment", "set_name",
     "delete_name", "set_global_type", "rename_global", "set_function_type",
     "make_function"}
TakesFunctionAddress == {"set_decompiler_comment", "set_lvar_type", "rename_lvar"}

\* The string argument a handler requires to be non-blank, by handler:
\* comment, lvar_type, new_name, type, prototype, pattern, needle, name.
RequiredString ==
    {"set_decompiler_comment", "set_lvar_type", "rename_lvar", "set_global_type",
     "rename_global", "set_function_type", "find_binary", "find_text",
     "get_struct", "get_enum"}

\* The handlers that reject a zero function_address.
RequiredFunctionAddress == {"set_lvar_type", "rename_lvar"}

\* The handlers that reject a blank session_id before the lookup.
RequiredSessionID == {"list_structs"}

\* strings.TrimSpace on the strings of the model.
TrimSpace(str) == IF str \in {"", " "} THEN "" ELSE str

\* The arguments of a call. str is the string that RequiredString names (of
\* the other handlers, their string argument if they have one), addr the
\* address, fnAddr the function_address; regex, offset and limit are those of
\* an enumeration. A handler reads only the arguments it takes.
Absent == -1
DefaultArgs ==
    [str |-> "x", addr |-> 4096, fnAddr |-> 4096, regex |-> "", offset |-> 0, limit |-> 10]

Strs == {"", " ", "x"}
Addrs == {0, 4096}
\* A regex argument: none, one that compiles, one that does not.
Regexes == {"", "^main$", "("}
ArgLimits == {0, 10}

Args(tool) ==
    {a \in [str : Strs, addr : Addrs, fnAddr : Addrs, regex : Regexes,
            offset : {0}, limit : ArgLimits] :
        /\ tool \notin RequiredString => a.str = DefaultArgs.str
        /\ tool \notin TakesAddress => a.addr = DefaultArgs.addr
        /\ tool \notin TakesFunctionAddress => a.fnAddr = DefaultArgs.fnAddr
        /\ tool \notin EnumTools => a.regex = DefaultArgs.regex /\ a.limit = DefaultArgs.limit}

\* The session ids a request may name: those of the registry and one more.
SessionIDs == Sessions \cup {"unknown"}
\* The same, and a blank one.
AllSessionIDs == SessionIDs \cup {""}

\* The texts of the errors of a worker RPC: the in-band error field of a
\* reply, and the error of the transport when no reply came.
InBandTexts == {"addr out of range"}
TransportText == "unavailable: connection refused"
\* The error of an RPC whose context was cancelled.
CanceledText == "canceled: context canceled"

\* A ToolError (kind, status, message, operation), and the absence of one.
NoError == [kind |-> "none", status |-> "none", message |-> "none", operation |-> "none"]

\* A cached list: the database version it was fetched at (the version when
\* the fetch began) and the request whose fetch produced it.
NoPayload == [ver |-> -1, by |-> 0]

\* A cache entry: absent, a pending marker, or filled with a payload.
NoEntry == [st |-> "absent", data |-> NoPayload]

\* A request that has not been made. Of a request, floor is the database
\* version that the mutations which had returned success before it began had
\* produced, peers are the loads of its key that had found no filled entry
\* and were still running when it began, and rpcErr is the text of the error
\* that the worker RPC behind its result ended with; sent tells that the
\* handler has sent an RPC to the worker, cancelled that the caller has
\* cancelled the context of the request.
IdleReq ==
    [pc |-> "idle", tool |-> "none", sid |-> NoSession, client |-> NoWorker,
     args |-> DefaultArgs, sent |-> FALSE, cancelled |-> FALSE,
     cache |-> NoCache, began |-> -1, sentAlive |-> FALSE, via |-> "none",
     rpcErr |-> "nil",
     err |-> NoError, success |-> FALSE, hit |-> FALSE, payload |-> NoPayload,
     floor |-> [make |-> 0, any |-> 0], peers |-> {}]

\* No enumeration tail, no cleanup has run.
NoPage == [pc |-> "none"]
NoOrphanProcs == [pc |-> "none"]
NoOrphanSocks == [pc |-> "none", found |-> {}, live |-> {}, managed |-> {},
                  failed |-> {}, removed |-> {}, ret |-> -1]

\* The registry with every session created and just touched, the sweeper
\* and the close not begun. Of the sweeper's run, snapIdle is the idle time
\* of every session when sweep took its snapshot, todo the sessions of the
\* snapshot still to tear down, cur the one being torn down, swept those it
\* has removed; removals counts, per session, the removes that took the
\* session out of the registry.
NewRegistry ==
    [list |-> Sessions,
     idle |-> [s \in Sessions |-> 0],
     sweepPc |-> "idle", snapIdle |-> [s \in Sessions |-> 0],
     todo |-> {}, cur |-> NoSession, swept |-> {},
     closePc |-> "idle", closeSess |-> NoSession,
     removals |-> [s \in Sessions |-> 0]]

\* The supervisor and the server after construction: no worker, no call.
ManagerInit ==
    /\ sessions = [s \in Sessions |-> NoWorker]
    /\ workerPID = [s \in Sessions |-> 0]
    /\ sockFile = [s \in Sessions |-> NoWorker]
    /\ proc = [k \in W |-> "none"]
    /\ bound = [k \in W |-> FALSE]
    /\ ctxDone = [k \in W |-> FALSE]
    /\ killed = [k \in W |-> FALSE]
    /\ processState = [k \in W |-> FALSE]
    /\ startPc = [k \in W |-> "idle"]
    /\ startSess = [k \in W |-> NoSession]
    /\ polls = [k \in W |-> 0]
    /\ probe = [k \in W |-> "pending"]
    /\ accepted = [k \in W |-> FALSE]
    /\ startRes = [k \in W |-> "none"]
    /\ monPc = [k \in W |-> "none"]
    /\ monWaitRes = [k \in W |-> "none"]
    /\ stopPc = [j \in StopCallers |-> "idle"]
    /\ stopSess = [j \in StopCallers |-> NoSession]
    /\ stopW = [j \in StopCallers |-> NoWorker]
    /\ stopExited = [j \in StopCallers |-> FALSE]
    /\ stopKillErr = [j \in StopCallers |-> "nil"]
    /\ stopWaitRes = [j \in StopCallers |-> "none"]
    /\ stopLog = [j \in StopCallers |-> <<>>]
    /\ stopRes = [j \in StopCallers |-> "none"]
    /\ reqCtxDone = [k \in W |-> FALSE]
    /\ req = [r \in Reqs |-> IdleReq]
    /\ dbVer = [s \in Sessions |-> 0]
    /\ retVer = [s \in Sessions |-> [make |-> 0, any |-> 0]]
    /\ sessionCache = [s \in CachedSessions |-> NoCache]
    /\ cacheEntries = [c \in AllCaches |-> [kd \in Kinds |-> NoEntry]]
    /\ touched = [s \in Sessions |-> 0]

Init ==
    /\ ManagerInit
    /\ page = NoPage
    /\ orphanProcs = NoOrphanProcs
    /\ orphanSocks = NoOrphanSocks
    /\ registry = NewRegistry

\* ------------------------------------------------------- the subprocess
\* The worker binds its socket path, which creates the socket file, and
\* starts to accept connections on it. bind fails when a file is already at
\* the path.
ProcListen(k) ==
    /\ proc[k] = "running"
    /\ sockFile[startSess[k]] = NoWorker
    /\ proc' = [proc EXCEPT ![k] = "listening"]
    /\ bound' = [bound EXCEPT ![k] = TRUE]
    /\ sockFile' = [sockFile EXCEPT ![startSess[k]] = k]
    /\ UNCHANGED <<sessions, workerPID, ctxDone, killed, processState>>
    /\ UNCHANGED <<startVars, monVars, stopVars>>
    /\ UNCHANGED <<reqCtxDone, serverVars, utilVars>>

\* The subprocess ends: by itself (a crash, or its exit after CloseSession),
\* by the SIGKILL of Process.Kill, or by the kill that exec.CommandContext
\* sends once workerCtx is cancelled. It stays a zombie until it is waited
\* for; its socket file stays where it is.
ProcExit(k) ==
    /\ Alive(k)
    /\ proc' = [proc EXCEPT ![k] = "zombie"]
    /\ UNCHANGED <<sessions, workerPID, sockFile, ctxDone, killed, processState, bound>>
    /\ UNCHANGED <<startVars, monVars, stopVars>>
    /\ UNCHANGED <<reqCtxDone, serverVars, utilVars>>

\* workerCtx derived from the inbound request context instead.
WorkerCtxDone_FromRequest(k) == ctxDone[k] \/ reqCtxDone[k]

\* workerCtx of Start call k is done. It is made by
\* context.WithCancel(context.Background()): only its own cancel() ends it,
\* and exec.CommandContext then kills the subprocess.
WorkerCtxDone(k) == ctxDone[k]

\* The subprocess has been told to die and has not yet.
Doomed(k) == Alive(k) /\ (killed[k] \/ WorkerCtxDone(k))

\* The caller of Start call k cancels the request context ctx it passed, while
\* the call runs or after it has returned. Start never reads ctx.
CancelRequest(k) ==
    /\ startPc[k] # "idle"
    /\ ~ reqCtxDone[k]
    /\ reqCtxDone' = [reqCtxDone EXCEPT ![k] = TRUE]
    /\ UNCHANGED <<sessions, workerPID, sockFile, procVars>>
    /\ UNCHANGED <<startVars, monVars, stopVars, serverVars, utilVars>>

\* ------------------------------------------------------------- cmd.Wait
\* A cmd.Wait that returns only to the call that finds the zombie.
CmdWaitReturns_OnlyZombie(k) == proc[k] = "zombie"

\* cmd.Wait of os/exec, as manager.go calls it on one cmd from Start, from
\* monitorWorker and from Stop. It blocks while the subprocess runs.
CmdWaitReturns(k) == Exited(k)

\* What cmd.Wait returns once it does. The call that finds the zombie reaps
\* it and returns its exit status (and sets cmd.ProcessState). A call on a
\* subprocess that another call has reaped returns an error: "exec: Wait was
\* already called" when it sees cmd.ProcessState set, the error of wait(2)
\* when it was already blocked in Process.Wait while the other call reaped.
CmdWaitResult(k) ==
    IF proc[k] = "zombie" THEN "exit_status" ELSE "err_wait"

\* ---------------------------------------------------------- waitForSocket
\* waitForSocket without the dial: the file at the path is enough.
ProbeOK_StatOnly(s) == StatOK(s)

\* One iteration of the loop of waitForSocket: nil when the stat and the
\* dial both succeed.
ProbeOK(s) == StatOK(s) /\ DialOK(s)

\* ------------------------------------------------------------------ Start
\* sess.WorkerPID assigned before the error of cmd.Start is looked at.
SetWorkerPID_BeforeErrCheck(pid, k, spawned) == k

\* sess.WorkerPID = cmd.Process.Pid, which Start reaches only when cmd.Start
\* has returned no error; else sess.WorkerPID keeps its value.
SetWorkerPID(pid, k, spawned) == IF spawned THEN k ELSE pid

\* Start for session s: os.RemoveAll of the socket path, then cmd.Start.
\* Either may fail, and Start then returns an error (after cancel() for a
\* failed spawn); else the subprocess runs and sess.WorkerPID is its pid.
StartBegin(k, s) ==
    /\ startPc[k] = "idle"
    /\ \A i \in W : i < k => startPc[i] # "idle"
    /\ startSess' = [startSess EXCEPT ![k] = s]
    /\ \/ /\ startPc' = [startPc EXCEPT ![k] = "done"]
          /\ startRes' = [startRes EXCEPT ![k] = "err_remove_socket"]
          /\ UNCHANGED <<sockFile, proc, workerPID, ctxDone>>
       \/ /\ sockFile' = [sockFile EXCEPT ![s] = NoWorker]
          /\ ctxDone' = [ctxDone EXCEPT ![k] = TRUE]
          /\ startPc' = [startPc EXCEPT ![k] = "done"]
          /\ startRes' = [startRes EXCEPT ![k] = "err_start_worker"]
          /\ workerPID' = [workerPID EXCEPT ![s] = SetWorkerPID(workerPID[s], k, FALSE)]
          /\ UNCHANGED proc
       \/ /\ sockFile' = [sockFile EXCEPT ![s] = NoWorker]
          /\ proc' = [proc EXCEPT ![k] = "running"]
          /\ workerPID' = [workerPID EXCEPT ![s] = SetWorkerPID(workerPID[s], k, TRUE)]
          /\ startPc' = [startPc EXCEPT ![k] = "probe"]
          /\ UNCHANGED <<ctxDone, startRes>>
    /\ UNCHANGED <<sessions, killed, processState, polls, probe, accepted, bound>>
    /\ UNCHANGED <<monVars, stopVars>>
    /\ UNCHANGED <<reqCtxDone, serverVars, utilVars>>

\* waitForSocket: while the deadline has not passed, stat and dial; return
\* nil on success, else sleep one poll interval. Past the deadline, return
\* the timeout error.
waitForSocket(k) ==
    /\ startPc[k] = "probe"
    /\ IF polls[k] < MaxPolls
       THEN /\ accepted' = [accepted EXCEPT ![k] = DialOK(startSess[k])]
            /\ IF ProbeOK(startSess[k])
               THEN /\ probe' = [probe EXCEPT ![k] = "ok"]
                    /\ startPc' = [startPc EXCEPT ![k] = "publish"]
                    /\ polls' = [polls EXCEPT ![k] = 0]
               ELSE /\ polls' = [polls EXCEPT ![k] = polls[k] + 1]
                    /\ UNCHANGED <<probe, startPc>>
       ELSE /\ probe' = [probe EXCEPT ![k] = "timeout"]
            /\ startPc' = [startPc EXCEPT ![k] = "fail_kill"]
            /\ polls' = [polls EXCEPT ![k] = 0]
            /\ UNCHANGED accepted
    /\ UNCHANGED <<sessions, workerPID, sockFile, procVars>>
    /\ UNCHANGED <<startSess, startRes>>
    /\ UNCHANGED <<monVars, stopVars>>
    /\ UNCHANGED <<reqCtxDone, serverVars, utilVars>>

\* Readiness failed: cancel(), then cmd.Process.Kill(), whose error is only
\* logged.
StartFailKill(k) ==
    /\ startPc[k] = "fail_kill"
    /\ ctxDone' = [ctxDone EXCEPT ![k] = TRUE]
    /\ killed' = [killed EXCEPT ![k] = TRUE]
    /\ startPc' = [startPc EXCEPT ![k] = "fail_wait"]
    /\ UNCHANGED <<sessions, workerPID, sockFile, proc, processState, bound>>
    /\ UNCHANGED <<startSess, polls, probe, accepted, startRes>>
    /\ UNCHANGED <<monVars, stopVars>>
    /\ UNCHANGED <<reqCtxDone, serverVars, utilVars>>

\* Readiness failed: cmd.Wait() reaps the subprocess (no other call waits
\* for it: the worker was never published), then Start returns the error.
StartFailWait(k) ==
    /\ startPc[k] = "fail_wait"
    /\ CmdWaitReturns(k)
    /\ processState' = [processState EXCEPT ![k] = TRUE]
    /\ proc' = [proc EXCEPT ![k] = "reaped"]
    /\ startPc' = [startPc EXCEPT ![k] = "done"]
    /\ startRes' = [startRes EXCEPT ![k] = "err_socket_not_ready"]
    /\ UNCHANGED <<sessions, workerPID, sockFile, ctxDone, killed, bound>>
    /\ UNCHANGED <<startSess, polls, probe, accepted>>
    /\ UNCHANGED <<monVars, stopVars>>
    /\ UNCHANGED <<reqCtxDone, serverVars, utilVars>>

\* The worker is ready: m.sessions[sess.ID] = worker under the write lock,
\* go m.monitorWorker(sess.ID, worker), return nil.
StartPublish(k) ==
    /\ startPc[k] = "publish"
    /\ sessions' = [sessions EXCEPT ![startSess[k]] = k]
    /\ monPc' = [monPc EXCEPT ![k] = "wait"]
    /\ startPc' = [startPc EXCEPT ![k] = "done"]
    /\ startRes' = [startRes EXCEPT ![k] = "ok"]
    /\ UNCHANGED <<workerPID, sockFile, procVars>>
    /\ UNCHANGED <<startSess, polls, probe, accepted, monWaitRes>>
    /\ UNCHANGED stopVars
    /\ UNCHANGED <<reqCtxDone, serverVars, utilVars>>

\* ---------------------------------------------------------- monitorWorker
\* A delete that leaves the map as it is.
DeleteSession_Keep(m, sid) == m

\* delete(m.sessions, sessionID), under the write lock.
DeleteSession(m, sid) == [m EXCEPT ![sid] = NoWorker]

\* err := worker.cmd.Wait(): blocks until the subprocess has exited; the
\* error is only logged.
MonitorWait(k) ==
    /\ monPc[k] = "wait"
    /\ CmdWaitReturns(k)
    /\ monWaitRes' = [monWaitRes EXCEPT ![k] = CmdWaitResult(k)]
    /\ processState' = [processState EXCEPT ![k] = TRUE]
    /\ proc' = [proc EXCEPT ![k] = "reaped"]
    /\ monPc' = [monPc EXCEPT ![k] = "delete"]
    /\ UNCHANGED <<sessions, workerPID, sockFile, ctxDone, killed, bound>>
    /\ UNCHANGED <<startVars, stopVars>>
    /\ UNCHANGED <<reqCtxDone, serverVars, utilVars>>

\* The monitor removes the entry of its session id from the map and ends.
MonitorDelete(k) ==
    /\ monPc[k] = "delete"
    /\ sessions' = DeleteSession(sessions, startSess[k])
    /\ monPc' = [monPc EXCEPT ![k] = "done"]
    /\ monWaitRes' = [monWaitRes EXCEPT ![k] = "none"]
    /\ UNCHANGED <<workerPID, sockFile, procVars>>
    /\ UNCHANGED <<startVars, stopVars>>
    /\ UNCHANGED <<reqCtxDone, serverVars, utilVars>>

monitorWorker(k) == MonitorWait(k) \/ MonitorDelete(k)

\* ------------------------------------------------------------------- Stop
\* Stop without its cmd.Wait.
StopStepAfter_NoWait(step) ==
    CASE step = "close"  -> "cancel"
      [] step = "cancel" -> "kill"
      [] step = "kill"   -> "delete"
      [] OTHER           -> "done"

\* Stop that removes the handle before it waits for the subprocess.
StopStepAfter_DeleteFirst(step) ==
    CASE step = "close"  -> "cancel"
      [] step = "cancel" -> "kill"
      [] step = "kill"   -> "delete"
      [] step = "delete" -> "wait"
      [] OTHER           -> "done"

\* Stop that returns without removing the handle.
StopStepAfter_NoDelete(step) ==
    CASE step = "close"  -> "cancel"
      [] step = "cancel" -> "kill"
      [] step = "kill"   -> "wait"
      [] OTHER           -> "done"

\* The order of the steps of Stop once it has found a worker.
StopStepAfter(step) ==
    CASE step = "close"  -> "cancel"
      [] step = "cancel" -> "kill"
      [] step = "kill"   -> "wait"
      [] step = "wait"   -> "delete"
      [] step = "delete" -> "done"
      [] OTHER           -> "done"

\* Stop that returns every kill error, os.ErrProcessDone too.
StopResult_AnyKillErr(killErr) ==
    IF killErr # "nil" THEN "err_kill_worker" ELSE "ok"

\* The error Stop returns: a kill error other than os.ErrProcessDone.
StopResult(killErr) ==
    IF killErr # "nil" /\ killErr # "ErrProcessDone" THEN "err_kill_worker" ELSE "ok"

\* Stop call j has done a step, which left it with killErr and with waitRes
\* from cmd.Wait: it goes on to the next step or, after the last, returns
\* (and its locals are gone).
StopAdvance(j, step, killErr, waitRes) ==
    LET next == StopStepAfter(step) IN
    /\ stopPc' = [stopPc EXCEPT ![j] = next]
    /\ stopLog' = [stopLog EXCEPT ![j] = Append(stopLog[j], step)]
    /\ stopRes' = [stopRes EXCEPT ![j] = IF next = "done" THEN StopResult(killErr) ELSE "none"]
    /\ stopKillErr' = [stopKillErr EXCEPT ![j] = IF next = "done" THEN "nil" ELSE killErr]
    /\ stopWaitRes' = [stopWaitRes EXCEPT ![j] = IF next = "done" THEN "none" ELSE waitRes]

\* Stop reads the worker of the session under the read lock; without one it
\* returns an error. With one, it calls CloseSession over the worker's socket
\* with a context that times out after 5 s: the call returns with a reply,
\* with a transport error or at the deadline, and Stop ignores which.
StopCall(j, s) ==
    /\ stopPc[j] \in {"idle", "done"}
    /\ stopSess' = [stopSess EXCEPT ![j] = s]
    /\ stopExited' = [stopExited EXCEPT ![j] =
                        IF sessions[s] # NoWorker THEN Exited(sessions[s])
                        ELSE workerPID[s] # 0 /\ monPc[workerPID[s]] = "done"]
    /\ IF sessions[s] # NoWorker
       THEN /\ stopW' = [stopW EXCEPT ![j] = sessions[s]]
            /\ stopPc' = [stopPc EXCEPT ![j] = StopStepAfter("close")]
            /\ stopLog' = [stopLog EXCEPT ![j] = <<"close">>]
            /\ stopRes' = [stopRes EXCEPT ![j] = "none"]
       ELSE /\ stopW' = [stopW EXCEPT ![j] = NoWorker]
            /\ stopPc' = [stopPc EXCEPT ![j] = "done"]
            /\ stopLog' = [stopLog EXCEPT ![j] = <<>>]
            /\ stopRes' = [stopRes EXCEPT ![j] = "err_no_worker"]
    /\ UNCHANGED <<stopKillErr, stopWaitRes>>
    /\ UNCHANGED <<sessions, workerPID, sockFile, procVars>>
    /\ UNCHANGED <<startVars, monVars>>
    /\ UNCHANGED <<reqCtxDone, serverVars>>

\* A call of Stop by a caller that the registry does not follow.
StopBegin(j, s) == StopCall(j, s) /\ UNCHANGED utilVars

\* worker.cancel()
StopCancel(j) ==
    /\ stopPc[j] = "cancel"
    /\ ctxDone' = [ctxDone EXCEPT ![stopW[j]] = TRUE]
    /\ StopAdvance(j, "cancel", stopKillErr[j], stopWaitRes[j])
    /\ UNCHANGED <<sessions, workerPID, sockFile, proc, killed, processState, bound>>
    /\ UNCHANGED <<startVars, monVars>>
    /\ UNCHANGED <<stopSess, stopW, stopExited>>
    /\ UNCHANGED <<reqCtxDone, serverVars, utilVars>>

\* worker.cmd.Process.Kill(): os.ErrProcessDone once the subprocess has been
\* reaped, else the signal is sent.
StopKill(j) ==
    /\ stopPc[j] = "kill"
    /\ IF proc[stopW[j]] = "reaped"
       THEN /\ StopAdvance(j, "kill", "ErrProcessDone", stopWaitRes[j])
            /\ UNCHANGED killed
       ELSE /\ StopAdvance(j, "kill", "nil", stopWaitRes[j])
            /\ killed' = [killed EXCEPT ![stopW[j]] = TRUE]
    /\ UNCHANGED <<sessions, workerPID, sockFile, proc, ctxDone, processState, bound>>
    /\ UNCHANGED <<startVars, monVars>>
    /\ UNCHANGED <<stopSess, stopW, stopExited>>
    /\ UNCHANGED <<reqCtxDone, serverVars, utilVars>>

\* worker.cmd.Process.Kill() fails with an error of kill(2) other than
\* os.ErrProcessDone: no signal is delivered, the error is logged, and Stop
\* goes on to cmd.Wait (the subprocess dies of the cancelled context).
StopKillFails(j) ==
    /\ stopPc[j] = "kill"
    /\ proc[stopW[j]] # "reaped"
    /\ StopAdvance(j, "kill", "EPERM", stopWaitRes[j])
    /\ UNCHANGED <<sessions, workerPID, sockFile, procVars>>
    /\ UNCHANGED <<startVars, monVars>>
    /\ UNCHANGED <<stopSess, stopW, stopExited>>
    /\ UNCHANGED <<reqCtxDone, serverVars, utilVars>>

\* worker.cmd.Wait(); its error is only logged.
StopWait(j) ==
    /\ stopPc[j] = "wait"
    /\ CmdWaitReturns(stopW[j])
    /\ processState' = [processState EXCEPT ![stopW[j]] = TRUE]
    /\ proc' = [proc EXCEPT ![stopW[j]] = "reaped"]
    /\ StopAdvance(j, "wait", stopKillErr[j], CmdWaitResult(stopW[j]))
    /\ UNCHANGED <<sessions, workerPID, sockFile, ctxDone, killed, bound>>
    /\ UNCHANGED <<startVars, monVars>>
    /\ UNCHANGED <<stopSess, stopW, stopExited>>
    /\ UNCHANGED <<reqCtxDone, serverVars, utilVars>>

\* delete(m.sessions, sessionID), under the write lock.
StopDelete(j) ==
    /\ stopPc[j] = "delete"
    /\ sessions' = DeleteSession(sessions, stopSess[j])
    /\ StopAdvance(j, "delete", stopKillErr[j], stopWaitRes[j])
    /\ UNCHANGED <<workerPID, sockFile, procVars>>
    /\ UNCHANGED <<startVars, monVars>>
    /\ UNCHANGED <<stopSess, stopW, stopExited>>
    /\ UNCHANGED <<reqCtxDone, serverVars, utilVars>>

StopStep(j) ==
    StopCancel(j) \/ StopKill(j) \/ StopWait(j) \/ StopDelete(j)

\* -------------------------------------------------------------- GetClient
\* A lookup that hands out the last worker spawned for the session.
GetClient_LastSpawned(sid) == [worker |-> workerPID[sid], err |-> "nil"]

\* The worker of the session under the read lock, or an error.
GetClient(sid) ==
    IF sessions[sid] # NoWorker
    THEN [worker |-> sessions[sid], err |-> "nil"]
    ELSE [worker |-> NoWorker, err |-> "no_worker"]

\* ---------------------------------------------------------------- errors
sessionNotFound(operation, sessionID) ==
    [kind |-> "session_not_found", status |-> "permanent",
     message |-> "session not found", operation |-> operation]

\* A factory that marks the unavailable worker as a permanent failure.
workerUnavailable_Permanent(operation, sessionID, err) ==
    [kind |-> "worker_unavailable", status |-> "permanent",
     message |-> "worker process not available", operation |-> operation]

workerUnavailable(operation, sessionID, err) ==
    [kind |-> "worker_unavailable", status |-> "temporary",
     message |-> "worker process not available", operation |-> operation]

idaOperationFailed(operation, sessionID, err) ==
    [kind |-> "ida_operation_failed", status |-> "permanent",
     message |-> err, operation |-> operation]

invalidInput(operation, message) ==
    [kind |-> "invalid_input", status |-> "permanent",
     message |-> message, operation |-> operation]

internalError(operation, err) ==
    [kind |-> "internal", status |-> "permanent",
     message |-> err, operation |-> operation]

\* The kinds and the statuses that errors.go declares.
ErrorKinds == {"session_not_found", "worker_unavailable", "ida_operation_failed",
               "invalid_input", "decompiler_unavailable", "internal"}
ErrorStatuses == {"permanent", "temporary"}

\* A handler that checks nothing before the lookup.
Validate_Nothing(tool, sid, a) == "nil"

\* The checks a handler makes before it looks the session up, in its order:
\* the text of the first that fails, or "nil". Only the handlers named in
\* RequiredString, RequiredFunctionAddress and RequiredSessionID make any.
Validate(tool, sid, a) ==
    IF tool \in RequiredString /\ TrimSpace(a.str) = "" THEN "argument is required"
    ELSE IF tool \in RequiredFunctionAddress /\ a.fnAddr = 0
         THEN "function_address is required"
    ELSE IF tool \in RequiredSessionID /\ TrimSpace(sid) = ""
         THEN "session_id is required"
    ELSE "nil"

\* A handler that reports a failed transport as an unavailable worker.
TransportFailure_WorkerUnavailable(op, sid, err) == workerUnavailable(op, sid, err)

\* What a handler returns when the forwarded RPC returned an error (err != nil).
TransportFailure(op, sid, err) == idaOperationFailed(op, sid, err)

\* A handler that reports the error field of a reply as an internal error.
InBandFailure_Internal(op, sid, msgErr) ==
    [kind |-> "internal", status |-> "permanent", message |-> msgErr, operation |-> op]

\* What a handler returns when the reply carries a non-empty error field.
InBandFailure(op, sid, msgErr) == idaOperationFailed(op, sid, msgErr)

\* ------------------------------------------------- filters and pagination
\* compileRegex: whether the pattern compiles.
Compiles(regex) == regex # "("

\* regex.MatchString on the names of the model.
MatchString(regex, name) ==
    CASE regex = "^main$" -> name = "main"
      [] regex = "sub"    -> name \in {"sub_1", "sub_2"}
      [] OTHER            -> FALSE

\* matchModule: the entry is of the module asked for.
matchModule(module, wanted) == module = wanted

DefaultLimit == 200
LimitCap == 2000

\* normalizePagination that lets limit = 0 through.
normalizePagination_ZeroPasses(offset, limit) ==
    [offset |-> IF offset = Absent THEN 0 ELSE offset,
     limit  |-> IF limit = Absent THEN DefaultLimit
                ELSE IF limit > LimitCap THEN LimitCap ELSE limit,
     err    |-> "nil"]

\* normalizePagination(offset, limit): the defaults for absent arguments,
\* limit = 0 rejected, a limit above the cap clamped to it.
normalizePagination(offset, limit) ==
    IF limit = 0
    THEN [offset |-> 0, limit |-> 0, err |-> "limit must be positive"]
    ELSE [offset |-> IF offset = Absent THEN 0 ELSE offset,
          limit  |-> IF limit = Absent THEN DefaultLimit
                     ELSE IF limit > LimitCap THEN LimitCap ELSE limit,
          err    |-> "nil"]

\* filtered: the entries that pass the module filter (getImports only) and
\* the regex filter, in their order.
Filtered(tool, data, module, regex) ==
    LET keep(e) == /\ (tool = "get_imports" /\ module # "" => matchModule(e.module, module))
                   /\ (regex # "" => MatchString(regex, e.name))
    IN  SelectSeq(data, keep)

\* A handler that does not clamp the offset to the total.
ClampOffset_Never(offset, total) == offset

\* if offset > total { offset = total }
ClampOffset(offset, total) == IF offset > total THEN total ELSE offset

\* end := offset + limit; if end > total { end = total }
ClampEnd(offset, limit, total) == IF offset + limit > total THEN total ELSE offset + limit

\* A handler that reports a rejected pagination as an internal error.
PaginationFailure_Internal(op, err) == internalError(op, err)

\* What an enumeration handler returns when normalizePagination fails.
PaginationFailure(op, err) == invalidInput(op, err)

NoResult == [total |-> -1, offset |-> -1, count |-> -1, limit |-> -1, items |-> <<>>]

\* The tail of an enumeration handler once load has returned data: the
\* filters, normalizePagination, the clamps and the slice filtered[offset:end].
enumPage(tool, data, module, regex, offset, limit) ==
    IF regex # "" /\ ~ Compiles(regex)
    THEN [err |-> invalidInput(tool, "error parsing regexp"), res |-> NoResult]
    ELSE LET filtered == Filtered(tool, data, module, regex)
             total == Len(filtered)
             np == normalizePagination(offset, limit)
             off == ClampOffset(np.offset, total)
             end == ClampEnd(off, np.limit, total)
             items == SubSeq(filtered, off + 1, end)
         IN  IF np.err # "nil"
             THEN [err |-> PaginationFailure(tool, np.err), res |-> NoResult]
             ELSE [err |-> NoError,
                   res |-> [total |-> total, offset |-> off, count |-> Len(items),
                            limit |-> np.limit, items |-> items]]

\* The error of that tail, which does not depend on the data.
enumTailError(tool, a) == enumPage(tool, <<>>, "", a.regex, a.offset, a.limit).err

\* The entries of a list (of functions, imports, exports or strings) by the
\* fields the filters read, the lists, and the arguments of a call.
PageEntries == {[name |-> "main", module |-> "libc"],
                [name |-> "sub_1", module |-> "libc"],
                [name |-> "sub_2", module |-> "kernel32"]}
PageLists == UNION {[1..n -> PageEntries] : n \in 0..MaxEntries}
PageRegexes == {"", "^main$", "sub", "("}
PageModules(tool) == IF tool = "get_imports" THEN {"", "libc"} ELSE {""}
PageOffsets == {Absent} \cup 0..(MaxEntries + 1)
PageLimits == {Absent, 0, 1, 2, LimitCap, LimitCap + 1}

NoOutput == [err |-> NoError, res |-> NoResult]

\* The calls of an enumeration handler whose load has returned data.
PageCalls ==
    UNION {[pc : {"called"}, tool : {tool}, data : PageLists,
            module : PageModules(tool), regex : PageRegexes,
            offset : PageOffsets, limit : PageLimits, out : {NoOutput}] :
           tool \in EnumTools}

\* The handler runs its tail on the loaded data and returns.
EnumTail ==
    /\ page.pc = "called"
    /\ page' = [page EXCEPT !.pc = "returned",
                            !.out = enumPage(page.tool, page.data, page.module,
                                             page.regex, page.offset, page.limit)]
    /\ UNCHANGED <<sessions, workerPID, sockFile, procVars>>
    /\ UNCHANGED <<startVars, monVars, stopVars>>
    /\ UNCHANGED <<reqCtxDone, serverVars, orphanProcs, orphanSocks, registry>>

\* --------------------------------------------------------- orphan cleanup
\* A command line, and a script path, are strings: here sequences of pieces,
\* so that one string can occur inside another.
\* strings.Contains(str, sub); every string contains the empty one.
Contains(str, sub) ==
    \E i \in 0..(Len(str) - Len(sub)) : SubSeq(str, i + 1, i + Len(sub)) = sub

MarkerIdaWorker == <<"ida-worker">>
FlagSocket == <<"--socket">>

\* The values of m.pythonScript: empty, a path, a path under an ida-worker
\* directory.
Scripts == {<<>>, <<"worker.py">>, <<"ida-worker", "worker.py">>}

\* /proc/<pid>/cmdline of a process, or Unreadable when the read fails: a
\* worker started from each script path, a process that has nothing to do
\* with workers and takes a --socket flag, an editor on the script, a gateway.
Unreadable == <<"?">>
CmdLines ==
    {<<"python3", "worker.py", "--socket", "sock">>,
     <<"python3", "ida-worker", "worker.py", "--socket", "sock">>,
     <<"dockerd", "--socket", "sock">>,
     <<"vim", "worker.py">>,
     <<"gateway">>,
     Unreadable}

Pids == 1..MaxPids

\* A loop that never skips an entry for being the caller's.
IsSelf_Never(pid, my) == FALSE

\* if pid == myPID { continue }
IsSelf(pid, my) == pid = my

\* The two marker tests of the loop: the command line holds "ida-worker" or
\* m.pythonScript, and it holds "--socket".
MatchesWorkerPattern(cmdStr, pythonScript) ==
    /\ ~ (~ Contains(cmdStr, MarkerIdaWorker) /\ ~ Contains(cmdStr, pythonScript))
    /\ Contains(cmdStr, FlagSocket)

\* The pids that the loop of CleanupOrphanProcesses calls proc.Signal on.
OrphanTargets(table, my, pythonScript) ==
    {pid \in DOMAIN table :
        /\ ~ IsSelf(pid, my)
        /\ table[pid] # Unreadable
        /\ MatchesWorkerPattern(table[pid], pythonScript)}

\* The calls of CleanupOrphanProcesses: whether /proc can be read, the
\* process table, the caller's pid and the script path of the manager.
OrphanProcCalls ==
    [pc : {"called"}, procfs : BOOLEAN, table : [Pids -> CmdLines], myPID : Pids,
     pythonScript : Scripts, signalled : {{}}, ret : {-1}]

\* CleanupOrphanProcesses: with no /proc it returns 0; else it sends SIGTERM
\* to every target and returns the number of signals that were delivered (a
\* target that has exited in the meantime makes Signal fail).
CleanupOrphanProcesses ==
    /\ orphanProcs.pc = "called"
    /\ LET targets == IF orphanProcs.procfs
                      THEN OrphanTargets(orphanProcs.table, orphanProcs.myPID,
                                         orphanProcs.pythonScript)
                      ELSE {}
       IN  \E gone \in SUBSET targets :
             orphanProcs' = [orphanProcs EXCEPT !.pc = "returned",
                                               !.signalled = targets,
                                               !.ret = Cardinality(targets \ gone)]
    /\ UNCHANGED <<sessions, workerPID, sockFile, procVars>>
    /\ UNCHANGED <<startVars, monVars, stopVars>>
    /\ UNCHANGED <<reqCtxDone, serverVars, page, orphanSocks, registry>>

\* The socket paths that filepath.Glob("/tmp/ida-worker-*.sock") returns:
\* the socket paths of the sessions that have a file. (The pattern is a
\* constant and well formed, so Glob returns no error.)
GlobSockets == {s \in Sessions : sockFile[s] # NoWorker}

\* The process that bound the file at the socket path of s is running and
\* accepts connections on it.
LiveSocket(s) == sockFile[s] # NoWorker /\ proc[sockFile[s]] = "listening"

\* The file at the socket path of s belongs to the worker that the map of
\* the manager holds for s.
ManagedSocket(s) ==
    sockFile[s] # NoWorker /\ sessions[s] # NoWorker /\ sessions[s] = sockFile[s]

\* CleanupOrphanSockets: os.Remove on every match of the glob; a failed
\* Remove is logged, every other one is counted. The call keeps what it
\* found: which files had a live process behind them and which belonged to
\* a worker of the map.
CleanupOrphanSockets ==
    /\ \E failed \in SUBSET GlobSockets :
          LET removed == GlobSockets \ failed IN
          /\ sockFile' = [s \in Sessions |->
                            IF s \in removed THEN NoWorker ELSE sockFile[s]]
          /\ orphanSocks' = [pc |-> "returned",
                             found |-> GlobSockets,
                             live |-> {s \in GlobSockets : LiveSocket(s)},
                             managed |-> {s \in GlobSockets : ManagedSocket(s)},
                             failed |-> failed,
                             removed |-> removed,
                             ret |-> Cardinality(removed)]
    /\ UNCHANGED <<sessions, workerPID, procVars>>
    /\ UNCHANGED <<startVars, monVars, stopVars>>
    /\ UNCHANGED <<reqCtxDone, serverVars, page, orphanProcs, registry>>

\* --------------------------------------------------------------- registry
\* s.registry.Get(sessionID): the session is in the registry.
RegistryGet(sid) == sid \in Sessions

\* A Touch that leaves the session as it was.
Touch_Never(t, sid) == t

\* sess.Touch(): one more touch of the session.
Touch(t, sid) == [t EXCEPT ![sid] = @ + 1]

\* ------------------------------------------------------------------ cache
\* s.getSessionCache(sessionID) on behalf of request r: the cache of the
\* session, a new and empty one when the session has none.
getSessionCache(r, sid) ==
    IF sessionCache[sid] # NoCache THEN sessionCache[sid] ELSE r

\* s.deleteSessionCache(sessionID): the session's cache is dropped whole; a
\* request that holds it goes on with it.
deleteSessionCache(m, sid) == [m EXCEPT ![sid] = NoCache]

\* The requests blocked on the pending marker of kind kd in cache c.
Waiters(c, kd) ==
    {q \in Reqs : req[q].pc = "wait" /\ req[q].cache = c /\ EnumKind(req[q].tool) = kd}

\* load that fetches whatever the entry holds.
loadEnter_AlwaysFetch(c, kd) == "fetch"

\* load, on entering: what it does with the entry of kind kd in cache c.
loadEnter(c, kd) ==
    CASE cacheEntries[c][kd].st = "filled"  -> "hit"
      [] cacheEntries[c][kd].st = "pending" -> "wait"
      [] OTHER                              -> "fetch"

\* load, with no entry: the pending marker is installed before the fetch.
loadInstall(c, kd) ==
    [cacheEntries EXCEPT ![c][kd] = [st |-> "pending", data |-> NoPayload]]

\* load, after fetch_fn returned e and data: the payload fills the entry, or
\* on an error the pending marker is removed.
loadPublish(c, kd, e, data) ==
    [cacheEntries EXCEPT ![c][kd] =
        IF e = "nil" THEN [st |-> "filled", data |-> data] ELSE NoEntry]

\* makeFunction that invalidates after every reply without an error.
InvalidatesCache_AnyReply(tool, success) == tool = "make_function"

\* A mutation handler that never invalidates.
InvalidatesCache_Never(tool, success) == FALSE

\* Whether a mutation handler invalidates the session cache after the reply:
\* only makeFunction does, and only when the reply's success flag is set.
InvalidatesCache(tool, success) == tool = "make_function" /\ success

\* --------------------------------------------------------------- handlers
\* A handler up to its first blocking call. The checks of its arguments, if
\* it makes any, then registry.Get, then Touch, then workers.GetClient; an
\* enumeration handler then takes the session cache and enters load: a
\* filled entry is returned as a hit and goes through the handler's tail, a
\* pending marker is waited on, and with no entry the marker is installed
\* and the fetch starts. Every other handler sends its one RPC over the
\* session's socket.
ReqBegin(r, tool, sid, a) ==
    /\ req[r].pc = "idle"
    /\ \A q \in Reqs : q < r => req[q].pc # "idle"
    /\ touched' = IF Validate(tool, sid, a) = "nil" /\ RegistryGet(sid)
                  THEN Touch(touched, sid)
                  ELSE touched
    /\ LET base == [req[r] EXCEPT !.tool = tool, !.sid = sid, !.args = a]
           client == IF RegistryGet(sid) THEN GetClient(sid)
                     ELSE [worker |-> NoWorker, err |-> "no_worker"]
           c == getSessionCache(r, sid)
           kd == EnumKind(tool)
           loading == {q \in Reqs : /\ req[q].pc \in {"fetch", "wait"}
                                    /\ req[q].sid = sid
                                    /\ EnumKind(req[q].tool) = kd}
       IN  IF Validate(tool, sid, a) # "nil"
           THEN /\ req' = [req EXCEPT ![r] = [base EXCEPT
                               !.pc = "done", !.via = "validate",
                               !.err = invalidInput(tool, Validate(tool, sid, a))]]
                /\ UNCHANGED <<sessionCache, cacheEntries>>
           ELSE IF ~ RegistryGet(sid)
           THEN /\ req' = [req EXCEPT ![r] = [base EXCEPT
                               !.pc = "done", !.via = "lookup",
                               !.err = sessionNotFound(tool, sid)]]
                /\ UNCHANGED <<sessionCache, cacheEntries>>
           ELSE IF client.err # "nil"
           THEN /\ req' = [req EXCEPT ![r] = [base EXCEPT
                               !.pc = "done", !.via = "client",
                               !.err = workerUnavailable(tool, sid, client.err)]]
                /\ UNCHANGED <<sessionCache, cacheEntries>>
           ELSE IF tool \in EnumTools
           THEN /\ sessionCache' = [sessionCache EXCEPT ![sid] = c]
                /\ CASE loadEnter(c, kd) = "hit" ->
                          /\ req' = [req EXCEPT ![r] = [base EXCEPT
                                         !.pc = "done", !.via = "hit",
                                         !.client = client.worker, !.cache = c,
                                         !.floor = retVer[sid],
                                         !.hit = TRUE,
                                         !.payload = cacheEntries[c][kd].data,
                                         !.err = enumTailError(tool, a)]]
                          /\ UNCHANGED cacheEntries
                     [] loadEnter(c, kd) = "wait" ->
                          /\ req' = [req EXCEPT ![r] = [base EXCEPT
                                         !.pc = "wait",
                                         !.client = client.worker, !.cache = c,
                                         !.floor = retVer[sid], !.peers = loading]]
                          /\ UNCHANGED cacheEntries
                     [] OTHER ->
                          /\ req' = [req EXCEPT ![r] = [base EXCEPT
                                         !.pc = "fetch", !.sent = TRUE,
                                         !.client = client.worker, !.cache = c,
                                         !.floor = retVer[sid], !.peers = loading,
                                         !.began = dbVer[sid]]]
                          /\ cacheEntries' = loadInstall(c, kd)
           ELSE /\ req' = [req EXCEPT ![r] = [base EXCEPT
                               !.pc = "rpc", !.client = client.worker, !.sent = TRUE,
                               !.sentAlive = DialOK(sid)]]
                /\ UNCHANGED <<sessionCache, cacheEntries>>
    /\ UNCHANGED <<dbVer, retVer, reqCtxDone>>
    /\ UNCHANGED <<sessions, workerPID, sockFile, procVars>>
    /\ UNCHANGED <<startVars, monVars, stopVars, utilVars>>

\* The forwarded RPC of a read or mutation handler returns, and the handler
\* with it. With no listener behind the socket the transport fails. A reply
\* carries an error text, or else the result; a mutation's success flag says
\* whether the worker changed its database. makeFunction then drops the
\* session cache when the flag is set.
RpcReturn(r) ==
    /\ req[r].pc = "rpc"
    /\ LET tool == req[r].tool
           sid == req[r].sid
       IN  IF ~ DialOK(sid)
           THEN /\ req' = [req EXCEPT ![r].pc = "done", ![r].via = "transport",
                                       ![r].rpcErr = TransportText,
                                       ![r].err = TransportFailure(tool, sid, TransportText)]
                /\ UNCHANGED <<dbVer, retVer, sessionCache>>
           ELSE \/ \E txt \in InBandTexts :
                     /\ req' = [req EXCEPT ![r].pc = "done", ![r].via = "inband",
                                            ![r].rpcErr = txt,
                                            ![r].err = InBandFailure(tool, sid, txt)]
                     /\ UNCHANGED <<dbVer, retVer, sessionCache>>
                \/ \E success \in IF tool \in WriteTools THEN BOOLEAN ELSE {TRUE} :
                     LET changed == tool \in MutationTools /\ success
                         ver == IF changed THEN dbVer[sid] + 1 ELSE dbVer[sid]
                     IN  /\ req' = [req EXCEPT ![r].pc = "done", ![r].via = "reply",
                                                ![r].success = success]
                         /\ dbVer' = [dbVer EXCEPT ![sid] = ver]
                         /\ retVer' = [retVer EXCEPT ![sid] =
                                          [make |-> IF changed /\ tool = "make_function"
                                                    THEN ver ELSE @.make,
                                           any  |-> ver]]
                         /\ sessionCache' = IF InvalidatesCache(tool, success)
                                            THEN deleteSessionCache(sessionCache, sid)
                                            ELSE sessionCache
    /\ UNCHANGED <<cacheEntries, touched, reqCtxDone>>
    /\ UNCHANGED <<sessions, workerPID, sockFile, procVars>>
    /\ UNCHANGED <<startVars, monVars, stopVars, utilVars>>

\* The fetch of an enumeration returns to the load that started it. On
\* success the payload fills the entry; on failure the pending marker is
\* removed. Either way the requests blocked on the marker are released with
\* the same outcome, as hits. Each handler turns an error of load into
\* idaOperationFailed under its own tool name, and takes the data of a
\* successful load through its tail.
FetchReturn(r) ==
    /\ req[r].pc = "fetch"
    /\ LET sid == req[r].sid
           c == req[r].cache
           kd == EnumKind(req[r].tool)
           data == [ver |-> req[r].began, by |-> r]
           errs == IF ~ DialOK(sid) THEN {TransportText} ELSE InBandTexts \cup {"nil"}
       IN  \E e \in errs :
             /\ cacheEntries' = loadPublish(c, kd, e, data)
             /\ IF e = "nil"
                THEN req' = [q \in Reqs |->
                               IF q = r
                               THEN [req[q] EXCEPT !.pc = "done", !.via = "fetch",
                                         !.hit = FALSE, !.payload = data,
                                         !.err = enumTailError(req[q].tool, req[q].args)]
                               ELSE IF q \in Waiters(c, kd)
                               THEN [req[q] EXCEPT !.pc = "done", !.via = "waited",
                                         !.hit = TRUE, !.payload = data,
                                         !.err = enumTailError(req[q].tool, req[q].args)]
                               ELSE req[q]]
                ELSE req' = [q \in Reqs |->
                               IF q = r
                               THEN [req[q] EXCEPT !.pc = "done", !.via = "fetch",
                                        !.rpcErr = e,
                                        !.err = idaOperationFailed(req[q].tool, sid, e)]
                               ELSE IF q \in Waiters(c, kd)
                               THEN [req[q] EXCEPT !.pc = "done", !.via = "waited",
                                        !.rpcErr = e,
                                        !.err = idaOperationFailed(req[q].tool, sid, e)]
                               ELSE req[q]]
    /\ UNCHANGED <<dbVer, retVer, sessionCache, touched, reqCtxDone>>
    /\ UNCHANGED <<sessions, workerPID, sockFile, procVars>>
    /\ UNCHANGED <<startVars, monVars, stopVars, utilVars>>

\* The caller of enumeration request r cancels its context while the
\* handler runs the fetch it started: fetch_fn was built over that ctx
\* (s.fetchAllFunctions(ctx, client, progress)), so its RPC ends with the
\* context's error. load removes the pending marker and gives the error to
\* the handler and to the requests blocked on the marker, whose own contexts
\* are as they were.
FetchCancelled(r) ==
    /\ req[r].pc = "fetch"
    /\ LET sid == req[r].sid
           c == req[r].cache
           kd == EnumKind(req[r].tool)
       IN  /\ cacheEntries' = loadPublish(c, kd, CanceledText, NoPayload)
           /\ req' = [q \in Reqs |->
                        IF q = r
                        THEN [req[q] EXCEPT !.pc = "done", !.via = "fetch",
                                 !.cancelled = TRUE, !.rpcErr = CanceledText,
                                 !.err = idaOperationFailed(req[q].tool, sid, CanceledText)]
                        ELSE IF q \in Waiters(c, kd)
                        THEN [req[q] EXCEPT !.pc = "done", !.via = "waited",
                                 !.rpcErr = CanceledText,
                                 !.err = idaOperationFailed(req[q].tool, sid, CanceledText)]
                        ELSE req[q]]
    /\ UNCHANGED <<dbVer, retVer, sessionCache, touched, reqCtxDone>>
    /\ UNCHANGED <<sessions, workerPID, sockFile, procVars>>
    /\ UNCHANGED <<startVars, monVars, stopVars, utilVars>>

\* ---------------------------------------------- registry and idle sweeper
\* sweep(max_idle): the sessions whose now - last_touched is at least
\* max_idle.
Expiring(reg) == {s \in reg.list : reg.idle[s] >= MaxIdle}

\* remove(session_id): the session leaves the registry; removing a session
\* that is not there is a no-op.
Remove(reg, s) ==
    [reg EXCEPT !.list = @ \ {s},
                !.removals[s] = IF s \in reg.list THEN @ + 1 ELSE @]

\* A step of the registry, the sweeper or the close that leaves the
\* supervisor and the server alone.
RegistryStep(reg) ==
    /\ registry' = reg
    /\ UNCHANGED <<sessions, workerPID, sockFile, procVars>>
    /\ UNCHANGED <<startVars, monVars, stopVars>>
    /\ UNCHANGED <<reqCtxDone, serverVars, page, orphanProcs, orphanSocks>>

\* The clock advances by one tick (idle times are counted up to max_idle).
Tick ==
    /\ \E s \in Sessions : registry.idle[s] < MaxIdle
    /\ RegistryStep([registry EXCEPT
           !.idle = [s \in Sessions |-> IF @[s] < MaxIdle THEN @[s] + 1 ELSE @[s]]])

\* A dispatched tool call touches the session it resolved.
TouchSession(s) ==
    /\ s \in registry.list
    /\ registry.idle[s] # 0
    /\ RegistryStep([registry EXCEPT !.idle[s] = 0])

\* The sweeper's run begins: it takes the snapshot of the expiring sessions;
\* with none the run is over.
Sweep ==
    /\ registry.sweepPc = "idle"
    /\ IF Expiring(registry) = {}
       THEN RegistryStep([registry EXCEPT !.sweepPc = "done",
                                          !.snapIdle = registry.idle])
       ELSE \E s \in Expiring(registry) :
              RegistryStep([registry EXCEPT !.sweepPc = "stop",
                                            !.snapIdle = registry.idle,
                                            !.todo = Expiring(registry) \ {s},
                                            !.cur = s])

\* The sweeper issues the supervisor's Stop for the session at hand.
SweepStop ==
    /\ registry.sweepPc = "stop"
    /\ StopCall("sweeper", registry.cur)
    /\ registry' = [registry EXCEPT !.sweepPc = "remove"]
    /\ UNCHANGED <<page, orphanProcs, orphanSocks>>

\* Stop has returned, with an error or without: the sweeper removes the
\* session from the registry and goes on to the next of its snapshot.
SweepRemove ==
    /\ registry.sweepPc = "remove"
    /\ stopPc["sweeper"] = "done"
    /\ LET reg == [Remove(registry, registry.cur) EXCEPT
                      !.swept = @ \cup {registry.cur}]
       IN  IF registry.todo = {}
           THEN RegistryStep([reg EXCEPT !.sweepPc = "done", !.cur = NoSession])
           ELSE \E s \in registry.todo :
                  RegistryStep([reg EXCEPT !.sweepPc = "stop",
                                           !.todo = @ \ {s}, !.cur = s])

\* An explicit close of session s, which the caller resolved in the
\* registry: the supervisor's Stop, then the registry's remove.
CloseStop(s) ==
    /\ registry.closePc = "idle"
    /\ s \in registry.list
    /\ StopCall("close", s)
    /\ registry' = [registry EXCEPT !.closePc = "remove", !.closeSess = s]
    /\ UNCHANGED <<page, orphanProcs, orphanSocks>>

CloseRemove ==
    /\ registry.closePc = "remove"
    /\ stopPc["close"] = "done"
    /\ RegistryStep([Remove(registry, registry.closeSess) EXCEPT !.closePc = "done"])

\* ---------------------------------------------------------- specification
Next ==
    \/ \E k \in W, s \in Sessions : StartBegin(k, s)
    \/ \E k \in W : waitForSocket(k)
    \/ \E k \in W : StartFailKill(k)
    \/ \E k \in W : StartFailWait(k)
    \/ \E k \in W : StartPublish(k)
    \/ \E k \in W : MonitorWait(k)
    \/ \E k \in W : MonitorDelete(k)
    \/ \E j \in StopCallers, s \in Sessions : StopBegin(j, s)
    \/ \E j \in StopCallers : StopCancel(j)
    \/ \E j \in StopCallers : StopKill(j)
    \/ \E j \in StopCallers : StopWait(j)
    \/ \E j \in StopCallers : StopDelete(j)
    \/ \E k \in W : ProcListen(k)
    \/ \E k \in W : ProcExit(k)

Spec == Init /\ [][Next]_vars

\* The supervisor with a Process.Kill that can fail.
KillFaultNext ==
    \/ Next
    \/ \E j \in StopCallers : StopKillFails(j)

KillFaultSpec == Init /\ [][KillFaultNext]_vars

\* The supervisor with callers of Start that cancel their request context.
CancelNext ==
    \/ Next
    \/ \E k \in W : CancelRequest(k)

CancelSpec == Init /\ [][CancelNext]_vars

\* The server once Start has returned nil for session s1: worker 1 listens
\* on the session's socket, its handle is published and its monitor waits.
ServerBase ==
    /\ sessions = [s \in Sessions |-> 1]
    /\ workerPID = [s \in Sessions |-> 1]
    /\ sockFile = [s \in Sessions |-> 1]
    /\ proc = [k \in W |-> IF k = 1 THEN "listening" ELSE "none"]
    /\ bound = [k \in W |-> k = 1]
    /\ ctxDone = [k \in W |-> FALSE]
    /\ killed = [k \in W |-> FALSE]
    /\ processState = [k \in W |-> FALSE]
    /\ startPc = [k \in W |-> IF k = 1 THEN "done" ELSE "idle"]
    /\ startSess = [k \in W |-> IF k = 1 THEN "s1" ELSE NoSession]
    /\ polls = [k \in W |-> 0]
    /\ probe = [k \in W |-> IF k = 1 THEN "ok" ELSE "pending"]
    /\ accepted = [k \in W |-> k = 1]
    /\ startRes = [k \in W |-> IF k = 1 THEN "ok" ELSE "none"]
    /\ monPc = [k \in W |-> IF k = 1 THEN "wait" ELSE "none"]
    /\ monWaitRes = [k \in W |-> "none"]
    /\ stopPc = [j \in StopCallers |-> "idle"]
    /\ stopSess = [j \in StopCallers |-> NoSession]
    /\ stopW = [j \in StopCallers |-> NoWorker]
    /\ stopExited = [j \in StopCallers |-> FALSE]
    /\ stopKillErr = [j \in StopCallers |-> "nil"]
    /\ stopWaitRes = [j \in StopCallers |-> "none"]
    /\ stopLog = [j \in StopCallers |-> <<>>]
    /\ stopRes = [j \in StopCallers |-> "none"]
    /\ reqCtxDone = [k \in W |-> FALSE]
    /\ req = [r \in Reqs |-> IdleReq]
    /\ dbVer = [s \in Sessions |-> 0]
    /\ retVer = [s \in Sessions |-> [make |-> 0, any |-> 0]]
    /\ touched = [s \in Sessions |-> 0]
    /\ page = NoPage
    /\ orphanProcs = NoOrphanProcs
    /\ orphanSocks = NoOrphanSocks
    /\ registry = NewRegistry

ServerInit ==
    /\ ServerBase
    /\ sessionCache = [s \in CachedSessions |-> NoCache]
    /\ cacheEntries = [c \in AllCaches |-> [kd \in Kinds |-> NoEntry]]

\* The same, when the other session holds a cache with its four lists.
PeerPayload == [ver |-> 0, by |-> 0]
PeerInit ==
    /\ ServerBase
    /\ sessionCache = [s \in CachedSessions |->
                          IF s = PeerSession THEN PeerCache ELSE NoCache]
    /\ cacheEntries = [c \in AllCaches |->
                          [kd \in Kinds |->
                              IF c = PeerCache
                              THEN [st |-> "filled", data |-> PeerPayload]
                              ELSE NoEntry]]

\* The tool handlers, the worker that may crash under them and the monitor
\* that then removes its handle.
ServerNext ==
    \/ \E r \in Reqs, tool \in Tools, sid \in SessionIDs : ReqBegin(r, tool, sid, DefaultArgs)
    \/ \E r \in Reqs : RpcReturn(r)
    \/ \E r \in Reqs : FetchReturn(r)
    \/ \E k \in W : ProcExit(k)
    \/ \E k \in W : MonitorWait(k)
    \/ \E k \in W : MonitorDelete(k)

ServerSpec == ServerInit /\ [][ServerNext]_vars

\* Every handler of the server under every argument it checks: one call of
\* any tool, and one more enumeration on the session, with the worker that
\* may crash under them and the monitor that then removes its handle.
DispatchNext ==
    \/ \E tool \in AllTools, sid \in AllSessionIDs :
          \E a \in Args(tool) : ReqBegin(1, tool, sid, a)
    \/ \E tool \in EnumTools, sid \in Sessions :
          \E a \in Args(tool) : ReqBegin(2, tool, sid, a)
    \/ \E r \in {1, 2} : RpcReturn(r)
    \/ \E r \in {1, 2} : FetchReturn(r)
    \/ \E k \in W : ProcExit(k)
    \/ \E k \in W : MonitorWait(k)
    \/ \E k \in W : MonitorDelete(k)

DispatchSpec == ServerInit /\ [][DispatchNext]_vars

\* Calls of make_function and get_functions on one session while another
\* session holds a filled cache.
InvalidateNext ==
    \/ \E r \in Reqs, tool \in {"make_function", "get_functions"}, sid \in Sessions :
          ReqBegin(r, tool, sid, DefaultArgs)
    \/ \E r \in Reqs : RpcReturn(r)
    \/ \E r \in Reqs : FetchReturn(r)
    \/ \E k \in W : ProcExit(k)
    \/ \E k \in W : MonitorWait(k)
    \/ \E k \in W : MonitorDelete(k)

InvalidateSpec == PeerInit /\ [][InvalidateNext]_vars

\* One session with its worker published, the dispatcher that touches it,
\* the clock, the worker that may crash and its monitor, one run of the
\* sweeper and one explicit close.
SweepNext ==
    \/ Tick
    \/ \E s \in Sessions : TouchSession(s)
    \/ Sweep
    \/ SweepStop
    \/ SweepRemove
    \/ \E s \in Sessions : CloseStop(s)
    \/ CloseRemove
    \/ \E j \in StopCallers : StopCancel(j)
    \/ \E j \in StopCallers : StopKill(j)
    \/ \E j \in StopCallers : StopWait(j)
    \/ \E j \in StopCallers : StopDelete(j)
    \/ \E k \in W : ProcExit(k)
    \/ \E k \in W : MonitorWait(k)
    \/ \E k \in W : MonitorDelete(k)

SweepSpec == ServerInit /\ [][SweepNext]_vars

\* The sweeper's goroutine and the handler of the close run on once they
\* have begun, as do the monitors; a subprocess that was killed, or whose
\* context was cancelled, dies.
SweepFairSpec ==
    /\ SweepSpec
    /\ WF_vars(SweepStop \/ SweepRemove \/ StopStep("sweeper"))
    /\ WF_vars(CloseRemove \/ StopStep("close"))
    /\ \A k \in W : WF_vars(monitorWorker(k))
    /\ \A k \in W : WF_vars(Doomed(k) /\ ProcExit(k))

\* Enumeration calls whose callers may cancel them during the fetch.
FetchCancelNext ==
    \/ \E r \in Reqs, tool \in {"get_functions", "get_strings"}, sid \in Sessions :
          ReqBegin(r, tool, sid, DefaultArgs)
    \/ \E r \in Reqs : FetchReturn(r)
    \/ \E r \in Reqs : FetchCancelled(r)
    \/ \E k \in W : ProcExit(k)
    \/ \E k \in W : MonitorWait(k)
    \/ \E k \in W : MonitorDelete(k)

FetchCancelSpec == ServerInit /\ [][FetchCancelNext]_vars

\* A mutation and an enumeration, and the two calls made of them.
ReopenTools == {"make_function", "get_functions"}
ReopenReqs == {1, 2}

\* A session whose worker is lost and which is then reopened: tool calls on
\* the session while its worker crashes or is stopped by the close of the
\* session, and while a later Start spawns the next worker.
ReopenNext ==
    \/ \E r \in ReopenReqs, tool \in ReopenTools, sid \in Sessions :
          ReqBegin(r, tool, sid, DefaultArgs)
    \/ \E r \in ReopenReqs : RpcReturn(r)
    \/ \E r \in ReopenReqs : FetchReturn(r)
    \/ \E k \in W : ProcExit(k)
    \/ \E k \in W : ProcListen(k)
    \/ \E k \in W : MonitorWait(k)
    \/ \E k \in W : MonitorDelete(k)
    \/ \E s \in Sessions : StopBegin("close", s)
    \/ StopStep("close")
    \/ \E k \in W, s \in Sessions : StartBegin(k, s)
    \/ \E k \in W : waitForSocket(k)
    \/ \E k \in W : StartFailKill(k)
    \/ \E k \in W : StartFailWait(k)
    \/ \E k \in W : StartPublish(k)

ReopenSpec == ServerInit /\ [][ReopenNext]_vars

\* The tail of an enumeration handler under every list, filter and
\* pagination of the bounds.
PageInit ==
    /\ ManagerInit
    /\ page \in PageCalls
    /\ orphanProcs = NoOrphanProcs
    /\ orphanSocks = NoOrphanSocks
    /\ registry = NewRegistry

PageNext == EnumTail

PageSpec == PageInit /\ [][PageNext]_vars

\* Start calls, the workers they spawn and CleanupOrphanSockets calls, in
\* every order.
OrphanSockNext ==
    \/ \E k \in W, s \in Sessions : StartBegin(k, s)
    \/ \E k \in W : waitForSocket(k)
    \/ \E k \in W : StartFailKill(k)
    \/ \E k \in W : StartFailWait(k)
    \/ \E k \in W : StartPublish(k)
    \/ \E k \in W : ProcListen(k)
    \/ \E k \in W : ProcExit(k)
    \/ \E k \in W : MonitorWait(k)
    \/ \E k \in W : MonitorDelete(k)
    \/ CleanupOrphanSockets

OrphanSockSpec == Init /\ [][OrphanSockNext]_vars

\* CleanupOrphanProcesses under every process table of the bounds.
OrphanProcInit ==
    /\ ManagerInit
    /\ page = NoPage
    /\ orphanProcs \in OrphanProcCalls
    /\ orphanSocks = NoOrphanSocks
    /\ registry = NewRegistry

OrphanProcNext == CleanupOrphanProcesses

OrphanProcSpec == OrphanProcInit /\ [][OrphanProcNext]_vars

\* The Go scheduler runs every goroutine that can run: a monitor goroutine
\* whose subprocess has exited gets to return from cmd.Wait and to take the
\* lock. A subprocess that was sent SIGKILL, or whose context was cancelled,
\* dies.
FairSpec ==
    /\ Init /\ [][Next]_vars
    /\ \A k \in W : WF_vars(monitorWorker(k))
    /\ \A k \in W : WF_vars(Doomed(k) /\ ProcExit(k))

\* ================================================================ claims
\* C1: in every reachable state each session has at most one live worker
\* subprocess spawned by the supervisor.
C1_OneLiveWorkerPerSession ==
    \A s \in Sessions :
        Cardinality({k \in W : startSess[k] = s /\ Alive(k)}) <= 1

\* C2: while a session has a published handle, a Start for it fails at once
\* with an error, no subprocess is spawned for it, and the handle is not
\* overwritten (it can only be removed).
C2_StartRejectsPublished ==
    [][\A s \in Sessions :
          sessions[s] # NoWorker =>
             /\ sessions'[s] \in {sessions[s], NoWorker}
             /\ \A k \in W :
                   startPc[k] = "idle" /\ startPc'[k] # "idle" /\ startSess'[k] = s =>
                      /\ proc'[k] = "none"
                      /\ startPc'[k] = "done"
                      /\ startRes'[k] \notin {"none", "ok"}]_vars

\* C3: Start returns success, and GetClient returns the worker's handle, only
\* after waitForSocket has succeeded with a dial that a listener accepted:
\* never for a worker that is still being probed or whose probe timed out.
C3_ReadyBeforeVisible ==
    \A k \in W :
        (startRes[k] = "ok" \/ \E s \in Sessions : GetClient(s).worker = k) =>
            /\ probe[k] = "ok"
            /\ accepted[k]
            /\ startPc[k] \notin {"probe", "fail_kill", "fail_wait"}

C3_Witness ==
    \E k \in W : startRes[k] = "ok" /\ GetClient(startSess[k]).worker = k

\* C4: waitForSocket gives up after at most MaxPolls polls, and when a Start
\* whose worker never created its socket returns the readiness failure, the
\* subprocess has been killed and reaped and no handle of the session is in
\* the map.
C4_ReadinessFailureLeavesNothing ==
    \A k \in W :
        /\ polls[k] <= MaxPolls
        /\ startRes[k] = "err_socket_not_ready" /\ ~ bound[k] =>
              /\ killed[k]
              /\ proc[k] = "reaped"
              /\ sessions[startSess[k]] = NoWorker

\* C5: when Start returns the readiness failure, no socket file is at the
\* session's socket path.
C5_ReadinessFailureRemovesSocket ==
    \A k \in W :
        startRes[k] = "err_socket_not_ready" => sockFile[startSess[k]] = NoWorker

\* C6: when a Stop that found a worker returns, that worker's subprocess has
\* been reaped.
C6_StopReturnsAfterReap ==
    \A j \in StopCallers :
        stopPc[j] = "done" /\ stopW[j] # NoWorker => proc[stopW[j]] = "reaped"

\* A Stop has returned for a worker whose monitor had waited for it too.
C6_Witness ==
    \E j \in StopCallers :
        /\ stopPc[j] = "done"
        /\ stopW[j] # NoWorker
        /\ monPc[stopW[j]] \in {"delete", "done"}

\* The order of Stop's steps that C7 states.
StopOrder == <<"close", "cancel", "kill", "wait", "delete">>

\* C7: a Stop that found a worker does CloseSession, cancel, Kill, Wait and
\* the removal from the map in this order, each after the one before has
\* taken effect.
C7_StopStepsInOrder ==
    \A j \in StopCallers :
        LET n == Len(stopLog[j])
            w == stopW[j]
        IN  /\ n <= Len(StopOrder)
            /\ stopLog[j] = SubSeq(StopOrder, 1, n)
            /\ n >= 1 => w # NoWorker
            /\ n >= 2 => ctxDone[w]
            /\ n >= 3 => killed[w] \/ proc[w] = "reaped"
            /\ n >= 4 => proc[w] = "reaped"
            /\ stopPc[j] = "done" /\ w # NoWorker => n = Len(StopOrder)

C7_Witness ==
    \E j \in StopCallers : stopPc[j] = "done" /\ stopLog[j] = StopOrder

C9_LaterWaitReturnsCachedResult ==
    /\ \A k \in W : monWaitRes[k] # "err_wait"
    /\ \A j \in StopCallers : stopWaitRes[j] # "err_wait"

\* C10: once the subprocess of a published worker has exited, its monitor
\* eventually removes the worker from the map, and the worker stays out of
\* it: GetClient returns it no more.
C10_MonitorRemovesExitedWorker ==
    \A k \in W :
        (monPc[k] # "none" /\ Exited(k)) ~> [](\A s \in Sessions : GetClient(s).worker # k)

\* A worker crashed with no Stop called, its monitor has removed it, and
\* GetClient fails for its session.
C10_Witness ==
    \E k \in W :
        /\ monPc[k] = "done"
        /\ ~ killed[k] /\ ~ ctxDone[k]
        /\ GetClient(startSess[k]).err = "no_worker"

\* C11: cancelling the request context that was passed to Start, during or
\* after Start, changes nothing of the worker (its process, its context, its
\* handle, its socket) nor of the call, and a worker's context ends or the
\* worker is killed only in a step of Stop, of Start's own failure handling,
\* never otherwise.
C11_RequestCancelDetached ==
    [][\A k \in W :
          /\ reqCtxDone'[k] # reqCtxDone[k] =>
                /\ WorkerCtxDone(k)' = WorkerCtxDone(k)
                /\ UNCHANGED <<sessions, workerPID, sockFile, procVars>>
                /\ UNCHANGED <<startVars, monVars, stopVars>>
          /\ (WorkerCtxDone(k)' \/ killed'[k]) /\ ~ (WorkerCtxDone(k) \/ killed[k]) =>
                \/ startPc[k] = "fail_kill"
                \/ startPc[k] = "idle" /\ startRes'[k] = "err_start_worker"
                \/ \E j \in StopCallers : stopW[j] = k /\ stopPc[j] \in {"cancel", "kill"}
      ]_vars

\* The request context of a Start was cancelled, the call has published its
\* worker all the same, and the worker is alive and reachable by GetClient.
C11_Witness ==
    \E k \in W :
        /\ reqCtxDone[k]
        /\ startRes[k] = "ok"
        /\ Alive(k)
        /\ ~ ctxDone[k] /\ ~ killed[k]
        /\ GetClient(startSess[k]).worker = k

\* C12: whenever worker_pid of a session is non-zero, that process is alive,
\* or its exit has not been observed yet (no cmd.Wait has returned for it),
\* or the monitor or the Stop that observed it is about to remove the handle;
\* so worker_pid is zero after Stop has returned, after a readiness-failed
\* Start has returned, and after the monitor has removed the handle.
C12_WorkerPidLiveOrUnobserved ==
    \A s \in Sessions :
        LET k == workerPID[s] IN
        k # 0 =>
            \/ Alive(k)
            \/ proc[k] = "zombie"
            \/ monPc[k] = "delete"
            \/ \E j \in StopCallers : stopW[j] = k /\ stopPc[j] = "delete"

\* The enumeration requests whose fetch for the key (s, kd) is in flight.
FetchesInFlight(s, kd) ==
    {r \in Reqs : req[r].pc = "fetch" /\ req[r].sid = s /\ EnumKind(req[r].tool) = kd}

\* C13: for every cache key (session, kind), at most one fetch is in flight
\* at any instant.
C13_OneFetchInFlightPerKey ==
    \A s \in Sessions, kd \in Kinds : Cardinality(FetchesInFlight(s, kd)) <= 1

\* C14: concurrent loads of the same missing key (a load and the loads of
\* the key that were running when it began) that have all returned a payload
\* have returned the identical payload, and exactly one of them, the one that
\* ran the fetch, reports was_hit = false; those that waited on the pending
\* marker report was_hit = true.
C14_ConcurrentMissesShareOneFetch ==
    \A r \in Reqs :
        LET group == req[r].peers \cup {r} IN
        /\ req[r].peers # {}
        /\ \A x \in group : req[x].pc = "done" /\ req[x].err = NoError
        =>  /\ \A x \in group : req[x].payload = req[r].payload
            /\ Cardinality({x \in group : ~ req[x].hit}) = 1
            /\ \A x \in group : req[x].hit <=> req[x].via = "waited"

C16_FetchFailureReleasesAndRetries ==
    [][\A r \in Reqs :
          LET s == req[r].sid
              kd == EnumKind(req[r].tool)
          IN
          /\ req[r].pc = "fetch" /\ req'[r].pc = "done" /\ req'[r].err # NoError =>
                /\ \A q \in Waiters(req[r].cache, kd) :
                      /\ req'[q].pc = "done"
                      /\ req'[q].err.kind = req'[r].err.kind
                      /\ req'[q].err.message = req'[r].err.message
                /\ \/ sessionCache'[s] = NoCache
                   \/ cacheEntries'[sessionCache'[s]][kd].st = "absent"
          /\ /\ req[r].pc = "idle" /\ req'[r].pc # "idle"
             /\ req'[r].tool \in EnumTools
             /\ req'[r].via \notin {"lookup", "client"}
             /\ \/ sessionCache[req'[r].sid] = NoCache
                \/ cacheEntries[sessionCache[req'[r].sid]][EnumKind(req'[r].tool)].st = "absent"
             => req'[r].pc = "fetch"
      ]_vars

\* C17: when make_function returns success, the session's cache has been
\* invalidated; and an enumeration read returns a payload of a fetch that
\* began no earlier than the success of every make_function that had
\* returned before the read began, a fetch in flight during the mutation
\* notwithstanding.
C17_MakeFunctionInvalidatesBeforeReturn ==
    [][\A r \in Reqs :
          req[r].pc # "done" /\ req'[r].pc = "done" =>
             /\ req'[r].tool = "make_function" /\ req'[r].via = "reply" /\ req'[r].success =>
                   sessionCache'[req'[r].sid] = NoCache
             /\ req'[r].tool \in EnumTools /\ req'[r].payload # NoPayload =>
                   req'[r].payload.ver >= req'[r].floor.make
      ]_vars

\* A fetch was in flight while make_function succeeded and returned; a read
\* that began afterwards, with that fetch still in flight, has returned a
\* payload fetched after the mutation, and the older fetch has returned its
\* older payload to its own caller.
C17_Witness ==
    \E a \in Reqs, b \in Reqs :
        /\ req[a].pc = "done" /\ req[a].via = "fetch" /\ req[a].payload # NoPayload
        /\ req[b].pc = "done" /\ req[b].payload # NoPayload
        /\ a \in req[b].peers
        /\ req[b].floor.make > req[a].payload.ver
        /\ req[b].payload.ver >= req[b].floor.make

\* C18: an enumeration read returns a payload of a fetch that began no
\* earlier than the success of every mutation (make_function, set_name,
\* delete_name, rename_global, set_function_type, set_global_type) that had
\* returned success before the read began.
C18_EveryMutationInvalidates ==
    \A r \in Reqs :
        /\ req[r].pc = "done"
        /\ req[r].tool \in EnumTools
        /\ req[r].payload # NoPayload
        => req[r].payload.ver >= req[r].floor.any

\* C19: a handler whose worker RPC failed, in the transport or by the error
\* field of a reply, returns a ToolError of kind ida_operation_failed, status
\* permanent, with its tool name as operation and the text of the underlying
\* error as message.
C19_RpcFailuresMapAlike ==
    \A r \in Reqs :
        req[r].pc = "done" /\ req[r].rpcErr # "nil" =>
            req[r].err = [kind |-> "ida_operation_failed", status |-> "permanent",
                          message |-> req[r].rpcErr, operation |-> req[r].tool]

\* Two calls of one tool have failed, one in the transport and one by the
\* error field of a reply.
C19_Witness ==
    \E r \in Reqs, q \in Reqs :
        /\ req[r].pc = "done" /\ req[r].via = "transport"
        /\ req[q].pc = "done" /\ req[q].via = "inband"
        /\ req[r].tool = req[q].tool
        /\ req[r].err.kind = req[q].err.kind

\* The forwarded RPC of request r was sent to a live worker, which exited
\* before it replied.
CrashedMidRequest(r) ==
    /\ req[r].pc = "done"
    /\ req[r].via = "transport"
    /\ req[r].sentAlive

\* C20 as stated: the caller of a tool whose worker crashed while its RPC was
\* in flight gets an error of kind worker_unavailable, and the session keeps
\* the pid of the dead worker.
C20_CrashMidRequestIsWorkerUnavailable ==
    \A r \in Reqs :
        CrashedMidRequest(r) =>
            /\ req[r].err.kind = "worker_unavailable"
            /\ workerPID[req[r].sid] = req[r].client

\* C20 as amended: that caller gets an error of kind ida_operation_failed
\* (status permanent), and the session keeps the pid of the dead worker;
\* worker_unavailable is what a call gets that finds no handle, as after the
\* monitor has removed it.
C20_CrashMidRequestIsOperationFailed ==
    \A r \in Reqs :
        /\ CrashedMidRequest(r) =>
              /\ req[r].err.kind = "ida_operation_failed"
              /\ req[r].err.status = "permanent"
              /\ workerPID[req[r].sid] = req[r].client
              /\ ~ Alive(req[r].client)
        /\ req[r].pc = "done" /\ req[r].via = "client" =>
              /\ req[r].err.kind = "worker_unavailable"
              /\ workerPID[req[r].sid] # 0

\* A call failed because its worker crashed under it, and a later call found
\* the handle removed by the monitor.
C20_Witness ==
    \E r \in Reqs, q \in Reqs :
        /\ CrashedMidRequest(r)
        /\ req[q].pc = "done" /\ req[q].via = "client"
        /\ monPc[req[r].client] = "done"

\* The handle of session s is put into the map in this step.
Published(s) == sessions[s] = NoWorker /\ sessions'[s] # NoWorker

\* C21: a tool call on a session whose worker handle is not in the map fails
\* at once with worker_unavailable (status temporary) and sends nothing; no
\* step of a handler spawns a subprocess, starts a Start or puts a handle into
\* the map; only a Start that returns nil puts one there.
C21_NoHandleNoRetry ==
    [][/\ \A r \in Reqs :
             /\ req[r].pc = "idle" /\ req'[r].pc # "idle"
             /\ sessions[req'[r].sid] = NoWorker
             => /\ req'[r].pc = "done"
                /\ req'[r].err.kind = "worker_unavailable"
                /\ req'[r].err.status = "temporary"
                /\ ~ req'[r].sent
       /\ req' # req => proc' = proc /\ sessions' = sessions /\ startPc' = startPc
       /\ \A s \in Sessions :
             Published(s) => \E k \in W : /\ startPc[k] = "publish" /\ startSess[k] = s
                                           /\ startRes'[k] = "ok" /\ sessions'[s] = k
      ]_vars

\* The worker of the session was stopped by the close of the session, a call
\* made then failed with worker_unavailable, and a call made after the next
\* Start had returned nil was forwarded to the new worker.
C21_Witness ==
    /\ stopRes["close"] = "ok"
    /\ req[1].pc = "done" /\ req[1].via = "client"
    /\ req[1].err.kind = "worker_unavailable"
    /\ startRes[2] = "ok"
    /\ req[2].pc = "done" /\ req[2].via = "reply" /\ req[2].client = 2

\* C22: every ToolError a handler returns has one of the six declared kinds,
\* carries the name of the tool that was called as its operation, which is
\* not empty, and has status temporary exactly when its kind is
\* worker_unavailable, permanent otherwise.
C22_ErrorsWellFormed ==
    \A r \in Reqs :
        req[r].err # NoError =>
            /\ req[r].err.kind \in ErrorKinds
            /\ req[r].err.operation = req[r].tool
            /\ req[r].err.operation # ""
            /\ req[r].err.status \in ErrorStatuses
            /\ req[r].err.status = "temporary" <=> req[r].err.kind = "worker_unavailable"

\* A call has failed in the transport under a crashed worker, and the next
\* has found no handle.
C22_Witness ==
    /\ req[1].pc = "done" /\ req[1].err.kind = "ida_operation_failed"
    /\ req[2].pc = "done" /\ req[2].err.kind = "worker_unavailable"
    /\ req[2].err.status = "temporary"

\* Request r begins in this step: its handler runs up to its first blocking
\* call, or to its return.
Begins(r) == req[r].pc = "idle" /\ req'[r].pc # "idle"

\* The handler of request r has returned an error of this kind and has sent
\* nothing to a worker.
Rejected(r, kind) ==
    /\ req[r].pc = "done"
    /\ req[r].err.kind = kind
    /\ ~ req[r].sent

ObligatoryMissing(tool, a) ==
    \/ tool \in RequiredString /\ TrimSpace(a.str) = ""
    \/ tool \in WriteTools \cap TakesAddress /\ a.addr = 0
    \/ tool \in TakesFunctionAddress /\ a.fnAddr = 0

\* C24: a call with a blank obligatory string, or with a zero address or
\* function_address, is rejected with invalid_input and nothing is sent to a
\* worker for it; so for make_function, set_name, set_function_type and
\* set_comment as for the tools that take a function_address.
C24_ObligatoryInputsRejected ==
    \A r \in Reqs :
        req[r].pc # "idle" /\ ObligatoryMissing(req[r].tool, req[r].args) =>
            /\ req[r].err.kind = "invalid_input"
            /\ ~ req[r].sent

\* C25: a call that passes its handler's checks and names a session of the
\* registry touches that session once, in the step that looks the handle up,
\* also when no handle is found; a call rejected by those checks or for an
\* unknown session touches nothing; and no later step of a handler, such as
\* the return of a failed RPC, touches anything.
C25_TouchedOncePerResolvedCall ==
    [][/\ \A r \in Reqs :
             Begins(r) =>
                IF req'[r].via \notin {"validate", "lookup"}
                THEN /\ req'[r].sid \in Sessions
                     /\ touched' = [touched EXCEPT ![req'[r].sid] = @ + 1]
                ELSE /\ req'[r].err.kind \in {"invalid_input", "session_not_found"}
                     /\ touched' = touched
       /\ (\A r \in Reqs : ~ Begins(r)) => touched' = touched
      ]_vars

\* A call whose RPC failed under a crashed worker and a call that found no
\* handle have each touched the session.
C25_Witness ==
    /\ req[1].pc = "done" /\ req[1].err.kind = "ida_operation_failed"
    /\ Rejected(2, "worker_unavailable")
    /\ req[1].sid = "s1"
    /\ touched["s1"] = 2

Min(a, b) == IF a < b THEN a ELSE b

\* C26: when an enumeration returns a page, with T the number of entries
\* left by the module and regex filters and (offset, limit) the normalized
\* pagination, total = T, the reported offset is min(offset, T), count is
\* min(limit, T - min(offset, T)), and the items are the filtered entries at
\* the positions from the reported offset on, count of them; an offset above
\* T gives an empty page with offset = T, and no offset makes the call fail.
C26_PageArithmetic ==
    page.pc = "returned" =>
        LET kept == {i \in 1..Len(page.data) :
                        /\ (page.tool = "get_imports" /\ page.module # "" =>
                               page.data[i].module = page.module)
                        /\ (page.regex # "" => MatchString(page.regex, page.data[i].name))}
            T == Cardinality(kept)
            \* the i-th kept entry, in the order of the list
            nth(i) == page.data[CHOOSE j \in kept :
                                  Cardinality({k \in kept : k <= j}) = i]
            np == normalizePagination(page.offset, page.limit)
            res == page.out.res
        IN  /\ page.out.err = NoError <=>
                  (page.regex = "" \/ Compiles(page.regex)) /\ np.err = "nil"
            /\ page.out.err = NoError =>
                  /\ res.total = T
                  /\ res.offset = Min(np.offset, T)
                  /\ res.count = Min(np.limit, T - Min(np.offset, T))
                  /\ Len(res.items) = res.count
                  /\ \A i \in 1..res.count : res.items[i] = nth(res.offset + i)
                  /\ np.offset > T => res.items = <<>> /\ res.offset = T

\* A page was asked for past the end of a list of which the regex filter
\* kept two entries of three.
C26_Witness ==
    /\ page.pc = "returned"
    /\ page.out.err = NoError
    /\ Len(page.data) = 3 /\ page.out.res.total = 2
    /\ page.offset = 3
    /\ page.out.res.offset = 2 /\ page.out.res.count = 0

\* C27: an enumeration called with limit = 0 returns invalid_input; with a
\* limit above the cap of 2000 it pages with the cap; with a limit from 1 to
\* the cap it pages with that limit.
C27_LimitNormalized ==
    page.pc = "returned" /\ (page.regex = "" \/ Compiles(page.regex)) =>
        /\ page.limit = 0 =>
              /\ page.out.err.kind = "invalid_input"
              /\ page.out.err.operation = page.tool
        /\ page.limit > LimitCap =>
              page.out.err = NoError /\ page.out.res.limit = LimitCap
        /\ page.limit \in 1..LimitCap =>
              page.out.err = NoError /\ page.out.res.limit = page.limit

\* A call with limit = 0 has been rejected on a list with entries.
C27_Witness ==
    /\ page.pc = "returned"
    /\ page.limit = 0 /\ page.regex = "sub" /\ Len(page.data) = 2
    /\ page.out.err.kind = "invalid_input"

\* C28: CleanupOrphanProcesses sends no signal to the process that calls
\* it, whatever the process table holds.
C28_NeverSignalsSelf ==
    orphanProcs.pc = "returned" => orphanProcs.myPID \notin orphanProcs.signalled

\* The gateway's own command line has the markers of a worker, and the
\* cleanup has signalled another process.
C28_Witness ==
    /\ orphanProcs.pc = "returned"
    /\ MatchesWorkerPattern(orphanProcs.table[orphanProcs.myPID], orphanProcs.pythonScript)
    /\ orphanProcs.table[orphanProcs.myPID] # Unreadable
    /\ orphanProcs.signalled # {}

\* The command line names the worker entrypoint: the configured script path,
\* if there is one, or the ida-worker marker.
HasEntrypoint(cmdStr, pythonScript) ==
    \/ pythonScript # <<>> /\ Contains(cmdStr, pythonScript)
    \/ Contains(cmdStr, MarkerIdaWorker)

\* C29: where /proc can be read, CleanupOrphanProcesses sends SIGTERM to a
\* process exactly when its command line holds the worker entrypoint and the
\* --socket flag and it is not the caller; a process whose command line
\* lacks the entrypoint is never signalled, whatever the script path of the
\* manager, the empty one included.
C29_SignalsExactlyWorkers ==
    orphanProcs.pc = "returned" /\ orphanProcs.procfs =>
        \A pid \in Pids :
            LET cmdStr == orphanProcs.table[pid] IN
            cmdStr # Unreadable =>
                (pid \in orphanProcs.signalled <=>
                    /\ HasEntrypoint(cmdStr, orphanProcs.pythonScript)
                    /\ Contains(cmdStr, FlagSocket)
                    /\ pid # orphanProcs.myPID)

\* C30: CleanupOrphanSockets removes exactly the stale socket files under
\* the prefix, those with no live worker process behind them (a file whose
\* Remove failed apart), and returns the number it removed; it does not
\* remove the socket file of a worker that the manager holds, in whatever
\* order Start and CleanupOrphanSockets are called.
C30_RemovesOnlyStaleSockets ==
    orphanSocks.pc = "returned" =>
        /\ orphanSocks.removed = (orphanSocks.found \ orphanSocks.live) \ orphanSocks.failed
        /\ orphanSocks.ret = Cardinality(orphanSocks.removed)
        /\ orphanSocks.removed \cap orphanSocks.managed = {}

\* The errors that Start returns.
StartErrors == {"err_remove_socket", "err_start_worker", "err_socket_not_ready"}

\* A step of Start call k other than the one that publishes the worker.
StartStepUnpublished(k) ==
    /\ startPc'[k] # startPc[k] \/ polls'[k] # polls[k]
    /\ startRes'[k] # "ok"

\* C36: no step of a Start that ends in an error (failed removal of the old
\* socket, failed spawn, readiness timeout) changes the map of the manager or
\* starts a monitor goroutine, so the call leaves the map as it found it; and
\* a Start that fails before it has spawned leaves sess.WorkerPID as it was.
C36_FailedStartChangesNothing ==
    [][\A k \in W :
          /\ StartStepUnpublished(k) =>
                /\ sessions' = sessions
                /\ monPc' = monPc
          /\ startRes'[k] \in StartErrors =>
                /\ monPc'[k] = "none"
                /\ \A s \in Sessions : sessions'[s] # k
          /\ startRes[k] = "none"
               /\ startRes'[k] \in {"err_remove_socket", "err_start_worker"} =>
                workerPID' = workerPID
      ]_vars

\* A Start has failed to spawn while the map held the worker of an earlier
\* Start of the session, and the map and sess.WorkerPID still hold that
\* worker.
C36_Witness ==
    \E k \in W :
        /\ startRes[k] = "err_start_worker"
        /\ sessions[startSess[k]] \notin {NoWorker, k}
        /\ workerPID[startSess[k]] = sessions[startSess[k]]

\* C39: when a Stop that found a handle returns, that handle is not in the
\* map, whether CloseSession reached the worker or not and whether Stop
\* returns a kill error or nil; and a Stop that finds no handle returns the
\* error, changes nothing of the manager, of the workers or of the socket
\* files and signals no process.
C39_StopRemovesHandle ==
    [][\A j \in StopCallers :
          /\ stopPc'[j] = "done" /\ stopW'[j] # NoWorker =>
                \A s \in Sessions : sessions'[s] # stopW'[j]
          /\ (\E s \in Sessions : sessions[s] = NoWorker /\ StopBegin(j, s)) =>
                /\ stopRes'[j] = "err_no_worker"
                /\ UNCHANGED <<sessions, workerPID, sockFile, procVars>>
                /\ UNCHANGED <<startVars, monVars>>
      ]_vars

\* A Stop has returned a kill error for a worker that had exited before the
\* call (so that CloseSession failed too), and the handle is gone.
C39_Witness ==
    \E j \in StopCallers :
        /\ stopPc[j] = "done"
        /\ stopW[j] # NoWorker
        /\ stopExited[j]
        /\ stopRes[j] = "err_kill_worker"
        /\ sessions[stopSess[j]] = NoWorker

\* C35: a handle leaves the map only in the delete of the monitor of its own
\* worker or of a Stop that had found this very handle: a handle that Start
\* published while the monitor or a Stop of an older worker of the session
\* was running is not removed by them.
C35_DeleteOnlyOwnHandle ==
    [][\A s \in Sessions :
          sessions[s] # NoWorker /\ sessions'[s] = NoWorker =>
             \/ \E k \in W :
                   monPc[k] = "delete" /\ monPc'[k] = "done" /\ sessions[s] = k
             \/ \E j \in StopCallers :
                   stopPc[j] = "delete" /\ stopPc'[j] = "done" /\ stopW[j] = sessions[s]
      ]_vars

\* A Stop that found worker k has not returned yet.
Stopping(k) ==
    \E j \in StopCallers : stopW[j] = k /\ stopPc[j] \notin {"idle", "done"}

\* GetClient hands out worker k.
Ready(k) == \E s \in Sessions : GetClient(s).worker = k

\* The state of worker k in the state machine of spec 4.2, read off the
\* manager: where its Start call is; for a published worker, whether a Stop
\* of it runs or has returned (only Stop cancels the context of a published
\* worker) and whether its monitor has removed it.
WorkerState(k) ==
    CASE startPc[k] = "idle" -> "NEW"
      [] startPc[k] \in {"probe", "publish", "fail_kill", "fail_wait"} -> "SPAWNING"
      [] startPc[k] = "done" /\ startRes[k] \in StartErrors -> "FAILED"
      [] OTHER ->
           IF Stopping(k) THEN "STOPPING"
           ELSE IF ctxDone[k] THEN "GONE"
           ELSE IF monPc[k] = "done" THEN "FAILED"
           ELSE "READY"

\* The transitions of the state machine of spec 4.2.
WorkerTransitions ==
    {<<"NEW", "SPAWNING">>, <<"NEW", "FAILED">>, <<"SPAWNING", "READY">>,
     <<"SPAWNING", "FAILED">>, <<"READY", "STOPPING">>, <<"READY", "FAILED">>,
     <<"STOPPING", "GONE">>, <<"STOPPING", "FAILED">>}

\* C33: every worker changes state only along the transitions NEW, SPAWNING,
\* READY, STOPPING, GONE, with FAILED from SPAWNING and from READY; GetClient
\* never hands out a worker that is GONE or FAILED; a worker is GONE only
\* once its process is reaped; and GetClient does not hand out a worker for
\* which a Stop has begun.
C33_WorkerStateMachine ==
    [][\A k \in W :
          /\ WorkerState(k)' # WorkerState(k) =>
                <<WorkerState(k), WorkerState(k)'>> \in WorkerTransitions
          /\ WorkerState(k)' \in {"GONE", "FAILED"} => ~ Ready(k)'
          /\ WorkerState(k)' = "GONE" => proc'[k] = "reaped"
          /\ WorkerState(k)' = "STOPPING" => ~ Ready(k)'
      ]_vars

\* make_function request r returns in this step.
MakeFunctionReturns(r) ==
    req[r].tool = "make_function" /\ req[r].pc = "rpc" /\ req'[r].pc = "done"

\* C34: the return of a make_function on session s leaves the cache of
\* every other session, and the entries of every cache, as they were; and
\* unless the reply came without an error and with the success flag set (a
\* transport failure, an error in the reply, success = false), it leaves the
\* cache of s as it was too.
C34_InvalidatesOnlyOnSuccess ==
    [][\A r \in Reqs :
          MakeFunctionReturns(r) =>
             /\ \A s \in CachedSessions \ {req[r].sid} : sessionCache'[s] = sessionCache[s]
             /\ cacheEntries' = cacheEntries
             /\ ~ (req'[r].via = "reply" /\ req'[r].success) =>
                   sessionCache' = sessionCache
      ]_vars

\* A make_function has returned success = false while its session held a
\* cache with a filled list, which it still holds, as the other session
\* holds its own.
C34_Witness ==
    \E r \in Reqs :
        /\ req[r].tool = "make_function"
        /\ req[r].pc = "done" /\ req[r].via = "reply" /\ ~ req[r].success
        /\ sessionCache[req[r].sid] # NoCache
        /\ cacheEntries[sessionCache[req[r].sid]]["functions"].st = "filled"
        /\ sessionCache[PeerSession] = PeerCache

\* C37: an enumeration request whose own context was never cancelled does
\* not end with the error of a cancelled context, whatever becomes of the
\* request that runs the fetch it waits for.
C37_WaiterSurvivesFetcherCancel ==
    \A q \in Reqs :
        req[q].pc = "done" /\ ~ req[q].cancelled => req[q].rpcErr # CanceledText

\* C38: an enumeration request that ends with invalid_input for its regex
\* or its pagination has sent no fetch to the worker and has not taken the
\* session cache; and a request with such an argument whose fetch failed
\* ends with invalid_input all the same.
C38_InvalidEnumHasNoEffect ==
    \A r \in Reqs :
        req[r].pc = "done" /\ req[r].tool \in EnumTools =>
            /\ req[r].err.kind = "invalid_input" =>
                  /\ ~ req[r].sent
                  /\ req[r].cache = NoCache
            /\ /\ enumTailError(req[r].tool, req[r].args) # NoError
               /\ req[r].via \in {"fetch", "waited"}
               /\ req[r].rpcErr # "nil"
               => req[r].err.kind = "invalid_input"

\* Every worker that was spawned for session s has been reaped.
WorkersReaped(s) ==
    \A k \in W : startSess[k] = s /\ proc[k] # "none" => proc[k] = "reaped"

\* C31: when a run of the sweeper is over, every session whose idle time
\* was at least max_idle when the run took its snapshot is out of list() and
\* its worker has been stopped and reaped, and the run has removed no
\* session whose idle time was below max_idle.
C31_SweepRemovesExactlyIdle ==
    registry.sweepPc = "done" =>
        \A s \in Sessions :
            /\ registry.snapIdle[s] >= MaxIdle =>
                  /\ s \notin registry.list
                  /\ WorkersReaped(s)
                  /\ \A t \in Sessions : sessions[t] = NoWorker \/ startSess[sessions[t]] # s
            /\ registry.snapIdle[s] < MaxIdle => s \notin registry.swept

\* The sweeper has removed an idle session whose worker its Stop found
\* alive; no close took part.
C31_Witness ==
    /\ registry.sweepPc = "done"
    /\ registry.swept # {}
    /\ registry.closePc = "idle"
    /\ stopRes["sweeper"] = "ok"
    /\ ~ stopExited["sweeper"]

\* The sweeper and the close have both taken up session s.
Racing(s) ==
    /\ registry.closeSess = s /\ registry.closePc # "idle"
    /\ s \in registry.swept \cup {registry.cur}

\* C32: when the sweeper and an explicit close both tear down a session, in
\* whatever order their steps fall, each goes through to its end; once both
\* are through the session has left the registry in exactly one of the two
\* removes, the other having found nothing to remove, its worker is reaped,
\* and neither Stop has returned a kill error.
C32_SweepAndCloseRace ==
    /\ [](\A s \in Sessions :
            Racing(s) /\ registry.closePc = "done" /\ s \in registry.swept =>
               /\ s \notin registry.list
               /\ registry.removals[s] = 1
               /\ WorkersReaped(s)
               /\ \A j \in StopCallers : stopRes[j] \in {"ok", "err_no_worker"})
    /\ (registry.sweepPc \in {"stop", "remove"} ~> registry.sweepPc = "done")
    /\ (registry.closePc = "remove" ~> registry.closePc = "done")

\* Both Stops found the worker and ran together, and both parties are
\* through.
C32_Witness ==
    /\ registry.closePc = "done"
    /\ registry.sweepPc = "done"
    /\ \E s \in Sessions : Racing(s) /\ registry.removals[s] = 1
    /\ \A j \in StopCallers : stopW[j] # NoWorker /\ stopRes[j] = "ok"

====
